---- MODULE Spec2Model ----
(***************************************************************************)
(* A model of game.py (rpi-dngn): the AnimatedSprite frame engine, the     *)
(* Player and Enemy state machines, the collision grid and the level       *)
(* loading pipeline of LevelLoader.                                        *)
(*                                                                         *)
(* Time is counted in ticks of 0.05 s, the largest unit that divides every *)
(* duration of the program (0.1, 0.15, 0.3, 0.4, 0.5, 0.6, 1.0, 1.5, 3.0   *)
(* seconds).  `now' is the wall clock read by time.time(); no time passes  *)
(* inside one call.  Python's None is the string "None".                   *)
(***************************************************************************)
EXTENDS Integers, Sequences, FiniteSets, TLC

VARIABLES
    now,              \* time.time(), in ticks
    spr,              \* a stand-alone AnimatedSprite
    spr_exact,        \* history: update calls since play, each exactly one clip duration after the previous call (-1: not so)
    spr_last_call,    \* history: time of the last play_animation / update call on spr
    spr_call,         \* history: the last call on spr (the sprite before it; name and reset of a play_animation)
    spr_consumed,     \* history: update calls since play that found a whole clip duration elapsed
    pl,               \* a stand-alone Player
    ret,              \* the value returned by the last call
    exc,              \* the exception the last call raised, None when it returned
    audio,            \* the calls the last operation made on the audio sink, and those that raised
    op,               \* the name of the last call
    dmg,              \* history of the take_damage(1) calls made on pl
    move_log,         \* history: the last Player.move calls, <<time, returned>>
    en,               \* a stand-alone Enemy
    en_leg,           \* history of the enemy's current leg
    level_sequence,   \* LevelLoader.level_sequence
    current_level_index,
    tmx_data,
    bg_surface,
    entities,
    player,           \* LevelLoader.player: an index into entities, 0 for None
    collision_grid,
    animated_tiles,
    query,            \* the last collision query and its answer
    frame,            \* history of the last LevelLoader.update call
    DEBUG_MODE_ON,    \* the debug flag toggle_debug_mode flips
    screen            \* the blits the last call made on the screen, in order

None == "None"

\* ------------------------------------------------------------ constants
WIDTH == 320
HEIGHT == 240
TILE_SIZE == 16
MOVEMENT_COOLDOWN == 3
attack_duration == 10
hurt_duration == 20
invincibility_duration == 30
max_health == 3
walk_window == 6
idle_duration == 60
move_cooldown == 6

\* ------------------------------------------------------------ bounds
\* time.time() when the program starts: far from 0, the initial value of
\* every stored timestamp.
StartTime == 100

\* ------------------------------------------------------------ AnimatedSprite

Frames(row, n, first) == [i \in 1..n |-> <<row, first + i - 1>>]

player_animations ==
    [idle_right |-> [frames |-> Frames(0, 3, 0), duration |-> 12, loop |-> TRUE],
     idle_left  |-> [frames |-> Frames(1, 3, 0), duration |-> 12, loop |-> TRUE],
     walk_right |-> [frames |-> Frames(2, 4, 0), duration |-> 12, loop |-> TRUE],
     walk_left  |-> [frames |-> Frames(3, 4, 0), duration |-> 12, loop |-> TRUE],
     hurt_right |-> [frames |-> Frames(4, 5, 1), duration |-> 12, loop |-> FALSE],
     hurt_left  |-> [frames |-> Frames(5, 5, 1), duration |-> 12, loop |-> FALSE]]

sword_animations ==
    [attack_left  |-> [frames |-> Frames(0, 5, 0), duration |-> 2, loop |-> FALSE],
     attack_right |-> [frames |-> Frames(2, 5, 0), duration |-> 2, loop |-> FALSE]]

enemy_animations ==
    [idle_right |-> [frames |-> Frames(0, 2, 0), duration |-> 12, loop |-> TRUE],
     idle_left  |-> [frames |-> Frames(1, 2, 0), duration |-> 12, loop |-> TRUE],
     walk_right |-> [frames |-> Frames(2, 3, 0), duration |-> 8, loop |-> TRUE],
     walk_left  |-> [frames |-> Frames(3, 3, 0), duration |-> 8, loop |-> TRUE]]

\* AnimatedSprite.__init__: no clip, frame 0, last_frame_time 0.
AnimatedSprite_init ==
    [current_animation |-> None, current_frame |-> 0,
     last_frame_time |-> 0, animation_finished |-> FALSE]

\* play_animation that keeps the frame index when it switches clips.
play_animation_keeps_frame(animations, s, animation_name, reset, t) ==
    IF animation_name \notin DOMAIN animations
    THEN s
    ELSE IF s.current_animation # animation_name \/ reset
         THEN [current_animation |-> animation_name,
               current_frame |-> IF reset THEN 0 ELSE s.current_frame,
               last_frame_time |-> t, animation_finished |-> FALSE]
         ELSE s

\* play_animation: an unknown name is warned about and changes nothing; a
\* known one restarts at frame 0 when it is another clip or reset is asked.
play_animation(animations, s, animation_name, reset, t) ==
    IF animation_name \notin DOMAIN animations
    THEN s
    ELSE IF s.current_animation # animation_name \/ reset
         THEN [current_animation |-> animation_name, current_frame |-> 0,
               last_frame_time |-> t, animation_finished |-> FALSE]
         ELSE s

\* A frame engine that catches up: one frame for every clip duration elapsed.
AnimatedSprite_update_catch_up(animations, s, t) ==
    IF s.current_animation = None \/ s.animation_finished
    THEN s
    ELSE LET anim_data == animations[s.current_animation]
             n == Len(anim_data.frames)
             due == s.current_frame
                    + (t - s.last_frame_time) \div anim_data.duration
         IN  IF t - s.last_frame_time >= anim_data.duration
             THEN IF due >= n
                  THEN IF anim_data.loop
                       THEN [s EXCEPT !.current_frame = due % n,
                                      !.last_frame_time = t]
                       ELSE [s EXCEPT !.current_frame = n - 1,
                                      !.last_frame_time = t,
                                      !.animation_finished = TRUE]
                  ELSE [s EXCEPT !.current_frame = due, !.last_frame_time = t]
             ELSE s

\* A frame engine that forgets to wrap or clamp at the end of the clip.
AnimatedSprite_update_nowrap(animations, s, t) ==
    IF s.current_animation = None \/ s.animation_finished
    THEN s
    ELSE IF t - s.last_frame_time >= animations[s.current_animation].duration
         THEN [s EXCEPT !.current_frame = @ + 1, !.last_frame_time = t]
         ELSE s

\* A frame engine that never marks a non-looping clip finished and wraps it.
AnimatedSprite_update_alwaysloop(animations, s, t) ==
    IF s.current_animation = None \/ s.animation_finished
    THEN s
    ELSE IF t - s.last_frame_time >= animations[s.current_animation].duration
         THEN [s EXCEPT !.current_frame =
                            (@ + 1) % Len(animations[s.current_animation].frames),
                        !.last_frame_time = t]
         ELSE s

AnimatedSprite_update(animations, s, t) ==
    IF s.current_animation = None \/ s.animation_finished
    THEN s
    ELSE LET anim_data == animations[s.current_animation]
             n == Len(anim_data.frames)
         IN  IF t - s.last_frame_time >= anim_data.duration
             THEN IF s.current_frame + 1 >= n
                  THEN IF anim_data.loop
                       THEN [s EXCEPT !.current_frame = 0, !.last_frame_time = t]
                       ELSE [s EXCEPT !.current_frame = n - 1,
                                      !.last_frame_time = t,
                                      !.animation_finished = TRUE]
                  ELSE [s EXCEPT !.current_frame = @ + 1, !.last_frame_time = t]
             ELSE s

is_animation_finished(s) == s.animation_finished

\* ------------------------------------------------------------ collision grid

Returns(v) == [exc |-> None, val |-> v]
Raises(e) == [exc |-> e, val |-> FALSE]

\* len(self.collision_grid[0]): an IndexError on a grid with no rows.
Row0Len(grid) ==
    IF Len(grid) = 0 THEN Raises("IndexError") ELSE Returns(Len(grid[1]))

\* The boundary check with its last two tests swapped: the width is read
\* before the height has been compared.
is_tile_blocked_width_first(grid, tile_x, tile_y) ==
    IF tile_x < 0 THEN Returns(TRUE)
    ELSE IF tile_y < 0 THEN Returns(TRUE)
    ELSE IF Row0Len(grid).exc # None THEN Row0Len(grid)
    ELSE IF tile_x >= Row0Len(grid).val THEN Returns(TRUE)
    ELSE IF tile_y >= Len(grid) THEN Returns(TRUE)
    ELSE Returns(grid[tile_y + 1][tile_x + 1])

\* Python's `or' evaluates left to right and stops at the first true test.
is_tile_blocked(grid, tile_x, tile_y) ==
    IF tile_x < 0 THEN Returns(TRUE)
    ELSE IF tile_y < 0 THEN Returns(TRUE)
    ELSE IF tile_y >= Len(grid) THEN Returns(TRUE)
    ELSE IF Row0Len(grid).exc # None THEN Row0Len(grid)
    ELSE IF tile_x >= Row0Len(grid).val THEN Returns(TRUE)
    ELSE Returns(grid[tile_y + 1][tile_x + 1])

\* int(pixel // TILE_SIZE): Python's floor division.
PixelToTile(pixel) == pixel \div TILE_SIZE

is_position_blocked(grid, pixel_x, pixel_y) ==
    is_tile_blocked(grid, PixelToTile(pixel_x), PixelToTile(pixel_y))

\* ------------------------------------------------------------ audio sink

\* The calls the program makes on the audio sink.
SinkCalls == {"sounds.sword_2.play", "music.stop", "music.play"}

\* One call on the audio sink: it raises when the call is one of the broken
\* ones and returns otherwise.
SinkCall(broken, name) ==
    IF name \in broken THEN Raises("pygame.error") ELSE Returns(TRUE)

\* What an operation did on the sink: the calls it made, and those of them
\* that raised.
Heard(calls, broken) ==
    [calls |-> calls,
     failed |-> {calls[i] : i \in 1..Len(calls)} \cap broken]

\* No call made on the sink.
Silent == Heard(<<>>, {})

\* ------------------------------------------------------------ Player

\* A player left on the pixel it was placed at.
Player_init_keeps_pixel(x, y, t) ==
    [kind |-> "Player",
     x |-> x,
     y |-> y,
     last_move_time |-> 0,
     facing_direction |-> "right",
     is_moving |-> FALSE,
     movement_timer |-> 0,
     is_attacking |-> FALSE,
     attack_start_time |-> 0,
     is_hurt |-> FALSE,
     hurt_start_time |-> 0,
     is_invincible |-> FALSE,
     invincibility_start_time |-> 0,
     current_health |-> 3,
     sprite |-> play_animation(player_animations, AnimatedSprite_init,
                               "idle_right", TRUE, t),
     sword_sprite |-> AnimatedSprite_init]

\* Player.__init__: the position is snapped to the grid.
Player_init(x, y, t) ==
    [kind |-> "Player",
     x |-> (x \div TILE_SIZE) * TILE_SIZE,
     y |-> (y \div TILE_SIZE) * TILE_SIZE,
     last_move_time |-> 0,
     facing_direction |-> "right",
     is_moving |-> FALSE,
     movement_timer |-> 0,
     is_attacking |-> FALSE,
     attack_start_time |-> 0,
     is_hurt |-> FALSE,
     hurt_start_time |-> 0,
     is_invincible |-> FALSE,
     invincibility_start_time |-> 0,
     current_health |-> 3,
     sprite |-> play_animation(player_animations, AnimatedSprite_init,
                               "idle_right", TRUE, t),
     sword_sprite |-> AnimatedSprite_init]

\* start_attack refused by the hurt flag alone.
start_attack_hurt_only(p, t, broken) ==
    IF p.is_hurt
    THEN [self |-> p, ret |-> FALSE, exc |-> None, calls |-> <<>>]
    ELSE [self |-> [p EXCEPT
                      !.is_attacking = TRUE,
                      !.attack_start_time = t,
                      !.sword_sprite =
                          play_animation(sword_animations, @,
                              IF p.facing_direction = "right"
                              THEN "attack_right" ELSE "attack_left", TRUE, t)],
          ret |-> TRUE, exc |-> None, calls |-> <<"sounds.sword_2.play">>]

\* start_attack: [self, ret, exc, calls].  The flag and the start time are
\* set before sounds.sword_2.play(); when that raises, the sword clip is not
\* started and nothing is returned.
start_attack(p, t, broken) ==
    IF p.is_attacking \/ p.is_hurt
    THEN [self |-> p, ret |-> FALSE, exc |-> None, calls |-> <<>>]
    ELSE LET p1 == [p EXCEPT !.is_attacking = TRUE,
                             !.attack_start_time = t]
             played == SinkCall(broken, "sounds.sword_2.play")
         IN  IF played.exc # None
             THEN [self |-> p1, ret |-> FALSE, exc |-> played.exc,
                   calls |-> <<"sounds.sword_2.play">>]
             ELSE [self |-> [p1 EXCEPT
                               !.sword_sprite =
                                   play_animation(sword_animations, @,
                                       IF p.facing_direction = "right"
                                       THEN "attack_right" ELSE "attack_left",
                                       TRUE, t)],
                   ret |-> TRUE, exc |-> None,
                   calls |-> <<"sounds.sword_2.play">>]

\* take_damage guarded by the hurt flag alone.
take_damage_hurt_only(p, damage, t) ==
    IF p.is_hurt
    THEN [self |-> p, ret |-> FALSE]
    ELSE [self |-> [p EXCEPT
                      !.current_health =
                          IF @ - damage < 0 THEN 0 ELSE @ - damage,
                      !.is_hurt = TRUE,
                      !.hurt_start_time = t,
                      !.is_invincible = TRUE,
                      !.invincibility_start_time = t,
                      !.is_attacking = FALSE,
                      !.sprite =
                          play_animation(player_animations, @,
                              IF p.facing_direction = "right"
                              THEN "hurt_right" ELSE "hurt_left", TRUE, t)],
          ret |-> TRUE]

\* take_damage that leaves an attack in progress.
take_damage_keeps_attack(p, damage, t) ==
    IF p.is_invincible \/ p.is_hurt
    THEN [self |-> p, ret |-> FALSE]
    ELSE [self |-> [p EXCEPT
                      !.current_health =
                          IF @ - damage < 0 THEN 0 ELSE @ - damage,
                      !.is_hurt = TRUE,
                      !.hurt_start_time = t,
                      !.is_invincible = TRUE,
                      !.invincibility_start_time = t,
                      !.sprite =
                          play_animation(player_animations, @,
                              IF p.facing_direction = "right"
                              THEN "hurt_right" ELSE "hurt_left", TRUE, t)],
          ret |-> TRUE]

\* take_damage that refills the health it would take below 0.
take_damage_refills(p, damage, t) ==
    IF p.is_invincible \/ p.is_hurt
    THEN [self |-> p, ret |-> FALSE]
    ELSE [self |-> [p EXCEPT
                      !.current_health =
                          IF @ - damage < 0 THEN max_health ELSE @ - damage,
                      !.is_hurt = TRUE,
                      !.hurt_start_time = t,
                      !.is_invincible = TRUE,
                      !.invincibility_start_time = t,
                      !.is_attacking = FALSE,
                      !.sprite =
                          play_animation(player_animations, @,
                              IF p.facing_direction = "right"
                              THEN "hurt_right" ELSE "hurt_left", TRUE, t)],
          ret |-> TRUE]

\* take_damage that starts the hurt state without the invincibility.
take_damage_stays_vulnerable(p, damage, t) ==
    IF p.is_invincible \/ p.is_hurt
    THEN [self |-> p, ret |-> FALSE]
    ELSE [self |-> [p EXCEPT
                      !.current_health =
                          IF @ - damage < 0 THEN 0 ELSE @ - damage,
                      !.is_hurt = TRUE,
                      !.hurt_start_time = t,
                      !.is_attacking = FALSE,
                      !.sprite =
                          play_animation(player_animations, @,
                              IF p.facing_direction = "right"
                              THEN "hurt_right" ELSE "hurt_left", TRUE, t)],
          ret |-> TRUE]

\* take_damage without the floor at 0.
take_damage_no_floor(p, damage, t) ==
    IF p.is_invincible \/ p.is_hurt
    THEN [self |-> p, ret |-> FALSE]
    ELSE [self |-> [p EXCEPT
                      !.current_health = @ - damage,
                      !.is_hurt = TRUE,
                      !.hurt_start_time = t,
                      !.is_invincible = TRUE,
                      !.invincibility_start_time = t,
                      !.is_attacking = FALSE,
                      !.sprite =
                          play_animation(player_animations, @,
                              IF p.facing_direction = "right"
                              THEN "hurt_right" ELSE "hurt_left", TRUE, t)],
          ret |-> TRUE]

take_damage(p, damage, t) ==
    IF p.is_invincible \/ p.is_hurt
    THEN [self |-> p, ret |-> FALSE]
    ELSE [self |-> [p EXCEPT
                      !.current_health =
                          IF @ - damage < 0 THEN 0 ELSE @ - damage,
                      !.is_hurt = TRUE,
                      !.hurt_start_time = t,
                      !.is_invincible = TRUE,
                      !.invincibility_start_time = t,
                      !.is_attacking = FALSE,
                      !.sprite =
                          play_animation(player_animations, @,
                              IF p.facing_direction = "right"
                              THEN "hurt_right" ELSE "hurt_left", TRUE, t)],
          ret |-> TRUE]

is_dead(p) == p.current_health <= 0

\* Player.update that ends the attack when the sword clip has finished
\* rather than when attack_duration has elapsed.
Player_update_rest_until_clip_ends(p, t) ==
    LET p1 == IF p.is_invincible
                 /\ t - p.invincibility_start_time >= invincibility_duration
              THEN [p EXCEPT !.is_invincible = FALSE] ELSE p
        p2 == IF p1.is_attacking
              THEN IF is_animation_finished(p1.sword_sprite)
                   THEN [p1 EXCEPT !.is_attacking = FALSE]
                   ELSE [p1 EXCEPT !.sword_sprite =
                             AnimatedSprite_update(sword_animations, @, t)]
              ELSE p1
    IN  [p2 EXCEPT !.sprite = AnimatedSprite_update(player_animations, @, t),
                   !.is_moving = FALSE]

\* Player.update from the invincibility test on (lines 381-424): p is the
\* player with the hurt flag already settled.
Player_update_rest(p, t) ==
    LET p1 == IF p.is_invincible
                 /\ t - p.invincibility_start_time >= invincibility_duration
              THEN [p EXCEPT !.is_invincible = FALSE] ELSE p
        p2 == IF p1.is_attacking
              THEN IF t - p1.attack_start_time >= attack_duration
                   THEN [p1 EXCEPT !.is_attacking = FALSE]
                   ELSE [p1 EXCEPT !.sword_sprite =
                             AnimatedSprite_update(sword_animations, @, t)]
              ELSE p1
        p3 == IF p2.is_moving
              THEN [p2 EXCEPT !.movement_timer = t + walk_window] ELSE p2
        show_walking == t < p3.movement_timer
        clip == IF show_walking
                THEN IF p3.facing_direction = "right"
                     THEN "walk_right" ELSE "walk_left"
                ELSE IF p3.facing_direction = "right"
                     THEN "idle_right" ELSE "idle_left"
        p4 == IF ~p3.is_attacking /\ ~p3.is_hurt
              THEN [p3 EXCEPT !.sprite =
                        play_animation(player_animations, @, clip, FALSE, t)]
              ELSE p3
    IN  [p4 EXCEPT !.sprite = AnimatedSprite_update(player_animations, @, t),
                   !.is_moving = FALSE]

\* Player.update that goes on to the other states while the player is hurt.
Player_update_no_early_return(p, t) ==
    IF p.is_hurt /\ t - p.hurt_start_time >= hurt_duration
    THEN Player_update_rest([p EXCEPT !.is_hurt = FALSE], t)
    ELSE Player_update_rest(p, t)

\* Player.update ending the invincibility together with the hurt state.
Player_update_short_invincibility(p, t) ==
    IF p.is_hurt
    THEN IF t - p.hurt_start_time >= hurt_duration
         THEN Player_update_rest([p EXCEPT !.is_hurt = FALSE,
                                           !.is_invincible = FALSE], t)
         ELSE [p EXCEPT !.sprite = AnimatedSprite_update(player_animations, @, t)]
    ELSE Player_update_rest(p, t)

Player_update(p, t) ==
    IF p.is_hurt
    THEN IF t - p.hurt_start_time >= hurt_duration
         THEN Player_update_rest([p EXCEPT !.is_hurt = FALSE], t)
         ELSE [p EXCEPT !.sprite = AnimatedSprite_update(player_animations, @, t)]
    ELSE Player_update_rest(p, t)

\* can_move without the cooldown test: only attacking and hurt stop a move.
can_move_no_cooldown(p, current_time) ==
    ~(p.is_attacking \/ p.is_hurt)

can_move(p, current_time) ==
    IF p.is_attacking \/ p.is_hurt
    THEN FALSE
    ELSE current_time - p.last_move_time >= MOVEMENT_COOLDOWN

\* Player.move that never turns the player.
Player_move_keeps_facing(p, dx, dy, level_width, level_height, current_time) ==
    IF ~can_move(p, current_time) THEN [self |-> p, ret |-> FALSE]
    ELSE IF dx # 0 /\ dy # 0 THEN [self |-> p, ret |-> FALSE]
    ELSE LET new_x == p.x + dx * TILE_SIZE
             new_y == p.y + dy * TILE_SIZE
             moved == (dx # 0 /\ new_x >= 0 /\ new_x <= level_width - TILE_SIZE)
                      \/ (dx = 0 /\ dy # 0 /\ new_y >= 0
                          /\ new_y <= level_height - TILE_SIZE)
         IN  IF moved
             THEN [self |-> [p EXCEPT !.x = IF dx # 0 THEN new_x ELSE @,
                                      !.y = IF dx = 0 THEN new_y ELSE @,
                                      !.last_move_time = current_time,
                                      !.is_moving = TRUE],
                   ret |-> TRUE]
             ELSE [self |-> p, ret |-> FALSE]

\* Player.move: [self, ret].  The facing is set from dx before the bounds
\* are looked at.
Player_move(p, dx, dy, level_width, level_height, current_time) ==
    IF ~can_move(p, current_time) THEN [self |-> p, ret |-> FALSE]
    ELSE IF dx # 0 /\ dy # 0 THEN [self |-> p, ret |-> FALSE]
    ELSE LET p1 == IF dx > 0 THEN [p EXCEPT !.facing_direction = "right"]
                   ELSE IF dx < 0 THEN [p EXCEPT !.facing_direction = "left"]
                   ELSE p
             new_x == p.x + dx * TILE_SIZE
             new_y == p.y + dy * TILE_SIZE
             p2 == IF dx # 0
                   THEN IF new_x >= 0 /\ new_x <= level_width - TILE_SIZE
                        THEN [p1 EXCEPT !.x = new_x] ELSE p1
                   ELSE IF dy # 0
                        THEN IF new_y >= 0 /\ new_y <= level_height - TILE_SIZE
                             THEN [p1 EXCEPT !.y = new_y] ELSE p1
                        ELSE p1
             moved == (dx # 0 /\ new_x >= 0 /\ new_x <= level_width - TILE_SIZE)
                      \/ (dx = 0 /\ dy # 0 /\ new_y >= 0
                          /\ new_y <= level_height - TILE_SIZE)
         IN  IF moved
             THEN [self |-> [p2 EXCEPT !.last_move_time = current_time,
                                       !.is_moving = TRUE],
                   ret |-> TRUE]
             ELSE [self |-> p2, ret |-> FALSE]

\* ------------------------------------------------------------ Enemy

Enemy_init(x, y, enemy_type, enemy_movement, blocks, t) ==
    [kind |-> "Enemy",
     x |-> (x \div TILE_SIZE) * TILE_SIZE,
     y |-> (y \div TILE_SIZE) * TILE_SIZE,
     enemy_type |-> enemy_type,
     enemy_movement |-> enemy_movement,
     blocks |-> blocks,
     start_x |-> (x \div TILE_SIZE) * TILE_SIZE,
     start_y |-> (y \div TILE_SIZE) * TILE_SIZE,
     facing_direction |-> "right",
     movement_state |-> "moving",
     blocks_moved |-> 0,
     idle_start_time |-> 0,
     last_move_time |-> 0,
     sprite |-> play_animation(enemy_animations, AnimatedSprite_init,
                               "walk_right", TRUE, t)]

\* The clip names of Enemy.update: vertical enemies reuse right for down and
\* left for up; an enemy of any other axis plays nothing.
EnemyClip(e, base, facing) ==
    IF e.enemy_movement \in {"horizontal", "vertical"}
    THEN IF facing = "right" THEN base \o "_right" ELSE base \o "_left"
    ELSE "no clip"

Enemy_dx(e) ==
    IF e.enemy_movement = "horizontal"
    THEN IF e.facing_direction = "right" THEN 1 ELSE -1
    ELSE 0

Enemy_dy(e) ==
    IF e.enemy_movement = "vertical"
    THEN IF e.facing_direction = "right" THEN 1 ELSE -1
    ELSE 0

\* A step that goes idle only after one block more than configured.
Enemy_step_one_more(e, may_move, t) ==
    IF may_move
    THEN LET e1 == [e EXCEPT !.x = e.x + Enemy_dx(e) * TILE_SIZE,
                             !.y = e.y + Enemy_dy(e) * TILE_SIZE,
                             !.blocks_moved = @ + 1,
                             !.last_move_time = t]
         IN  IF e1.blocks_moved > e1.blocks
             THEN [e1 EXCEPT !.movement_state = "idle",
                             !.idle_start_time = t,
                             !.blocks_moved = 0,
                             !.sprite = play_animation(enemy_animations, @,
                                 EnemyClip(e, "idle", e.facing_direction), TRUE, t)]
             ELSE e1
    ELSE [e EXCEPT !.movement_state = "idle",
                   !.idle_start_time = t,
                   !.blocks_moved = 0,
                   !.sprite = play_animation(enemy_animations, @,
                       EnemyClip(e, "idle", e.facing_direction), TRUE, t)]

\* A step that, when blocked, turns around at once and keeps moving.
Enemy_step_turns_on_block(e, may_move, t) ==
    IF may_move
    THEN LET e1 == [e EXCEPT !.x = e.x + Enemy_dx(e) * TILE_SIZE,
                             !.y = e.y + Enemy_dy(e) * TILE_SIZE,
                             !.blocks_moved = @ + 1,
                             !.last_move_time = t]
         IN  IF e1.blocks_moved >= e1.blocks
             THEN [e1 EXCEPT !.movement_state = "idle",
                             !.idle_start_time = t,
                             !.blocks_moved = 0,
                             !.sprite = play_animation(enemy_animations, @,
                                 EnemyClip(e, "idle", e.facing_direction), TRUE, t)]
             ELSE e1
    ELSE [e EXCEPT !.facing_direction =
                       IF @ = "right" THEN "left" ELSE "right",
                   !.last_move_time = t,
                   !.blocks_moved = 0]

\* A step that, when blocked, goes idle without resetting the leg counter.
Enemy_step_keeps_count(e, may_move, t) ==
    IF may_move
    THEN LET e1 == [e EXCEPT !.x = e.x + Enemy_dx(e) * TILE_SIZE,
                             !.y = e.y + Enemy_dy(e) * TILE_SIZE,
                             !.blocks_moved = @ + 1,
                             !.last_move_time = t]
         IN  IF e1.blocks_moved >= e1.blocks
             THEN [e1 EXCEPT !.movement_state = "idle",
                             !.idle_start_time = t,
                             !.blocks_moved = 0,
                             !.sprite = play_animation(enemy_animations, @,
                                 EnemyClip(e, "idle", e.facing_direction), TRUE, t)]
             ELSE e1
    ELSE [e EXCEPT !.movement_state = "idle",
                   !.idle_start_time = t,
                   !.sprite = play_animation(enemy_animations, @,
                       EnemyClip(e, "idle", e.facing_direction), TRUE, t)]

\* A step that, when blocked, waits where it is and tries again.
Enemy_step_waits_when_blocked(e, may_move, t) ==
    IF may_move
    THEN LET e1 == [e EXCEPT !.x = e.x + Enemy_dx(e) * TILE_SIZE,
                             !.y = e.y + Enemy_dy(e) * TILE_SIZE,
                             !.blocks_moved = @ + 1,
                             !.last_move_time = t]
         IN  IF e1.blocks_moved >= e1.blocks
             THEN [e1 EXCEPT !.movement_state = "idle",
                             !.idle_start_time = t,
                             !.blocks_moved = 0,
                             !.sprite = play_animation(enemy_animations, @,
                                 EnemyClip(e, "idle", e.facing_direction), TRUE, t)]
             ELSE e1
    ELSE [e EXCEPT !.last_move_time = t]

\* A step that turns the enemy around as soon as its leg is complete.
Enemy_step_turns_at_leg_end(e, may_move, t) ==
    IF may_move
    THEN LET e1 == [e EXCEPT !.x = e.x + Enemy_dx(e) * TILE_SIZE,
                             !.y = e.y + Enemy_dy(e) * TILE_SIZE,
                             !.blocks_moved = @ + 1,
                             !.last_move_time = t]
         IN  IF e1.blocks_moved >= e1.blocks
             THEN [e1 EXCEPT !.movement_state = "idle",
                             !.idle_start_time = t,
                             !.blocks_moved = 0,
                             !.facing_direction =
                                 IF @ = "right" THEN "left" ELSE "right",
                             !.sprite = play_animation(enemy_animations, @,
                                 EnemyClip(e, "idle", e.facing_direction), TRUE, t)]
             ELSE e1
    ELSE [e EXCEPT !.movement_state = "idle",
                   !.idle_start_time = t,
                   !.blocks_moved = 0,
                   !.sprite = play_animation(enemy_animations, @,
                       EnemyClip(e, "idle", e.facing_direction), TRUE, t)]

\* The step of a moving enemy whose cooldown has elapsed (lines 576-636).
Enemy_step(e, may_move, t) ==
    IF may_move
    THEN LET e1 == [e EXCEPT !.x = e.x + Enemy_dx(e) * TILE_SIZE,
                             !.y = e.y + Enemy_dy(e) * TILE_SIZE,
                             !.blocks_moved = @ + 1,
                             !.last_move_time = t]
         IN  IF e1.blocks_moved >= e1.blocks
             THEN [e1 EXCEPT !.movement_state = "idle",
                             !.idle_start_time = t,
                             !.blocks_moved = 0,
                             !.sprite = play_animation(enemy_animations, @,
                                 EnemyClip(e, "idle", e.facing_direction), TRUE, t)]
             ELSE e1
    ELSE [e EXCEPT !.movement_state = "idle",
                   !.idle_start_time = t,
                   !.blocks_moved = 0,
                   !.sprite = play_animation(enemy_animations, @,
                       EnemyClip(e, "idle", e.facing_direction), TRUE, t)]

\* Enemy.update before the final sprite update, given the answer of the
\* collision query (lines 573-672).
Enemy_ai(e, may_move, t) ==
    IF e.movement_state = "moving"
    THEN IF t - e.last_move_time >= move_cooldown
         THEN Enemy_step(e, may_move, t)
         ELSE [e EXCEPT !.sprite = play_animation(enemy_animations, @,
                   EnemyClip(e, "walk", e.facing_direction), FALSE, t)]
    ELSE IF e.movement_state = "idle"
    THEN IF t - e.idle_start_time >= idle_duration
         THEN LET facing == IF e.facing_direction = "right"
                            THEN "left" ELSE "right"
              IN  [e EXCEPT !.facing_direction = facing,
                            !.movement_state = "moving",
                            !.last_move_time = t,
                            !.sprite = play_animation(enemy_animations, @,
                                EnemyClip(e, "walk", facing), TRUE, t)]
         ELSE e
    ELSE e

\* Enemy.update that never asks the level whether the way is free.
Enemy_update_blind(e, has_loader, grid, t) ==
    [self |-> [Enemy_ai(e, TRUE, t) EXCEPT !.sprite =
                  AnimatedSprite_update(enemy_animations, @, t)],
     exc |-> None]

\* Enemy.update(level_loader): has_loader is `level_loader is not None', grid
\* its collision grid.  The query is made only by a moving enemy whose
\* cooldown has elapsed; an exception of the query leaves the enemy as it was.
Enemy_update(e, has_loader, grid, t) ==
    LET asks == e.movement_state = "moving"
                /\ t - e.last_move_time >= move_cooldown /\ has_loader
        blocked == IF asks
                   THEN is_position_blocked(grid,
                            e.x + Enemy_dx(e) * TILE_SIZE,
                            e.y + Enemy_dy(e) * TILE_SIZE)
                   ELSE Returns(FALSE)
    IN  IF blocked.exc # None
        THEN [self |-> e, exc |-> blocked.exc]
        ELSE [self |-> [Enemy_ai(e, ~blocked.val, t) EXCEPT !.sprite =
                            AnimatedSprite_update(enemy_animations, @, t)],
              exc |-> None]

\* ------------------------------------------------------------ level data

\* Width and height, in tiles, of the maps the loader is given.
MapW == 3
MapH == 2

\* The cells of a tile layer in pytmx's iteration order (row by row), each
\* <<x, y, gid>>; gid 0 is an empty cell.
Cells(w, h, gid) ==
    [i \in 1..(w * h) |-> <<(i - 1) % w, (i - 1) \div w,
                            gid[(i - 1) % w, (i - 1) \div w]>>]

TileLayer(name, cells) ==
    [name |-> name, has_data |-> TRUE, cells |-> cells, objects |-> <<>>]
ObjectLayer(name, objects) ==
    [name |-> name, has_data |-> FALSE, cells |-> <<>>, objects |-> objects]

Obj(name, x, y, props) == [name |-> name, x |-> x, y |-> y, properties |-> props]
NoProps == [k \in {} |-> None]

\* A property value as Tiled types it: an int, or a string.
IntValue(n) == [type |-> "int", int |-> n, str |-> ""]
StrValue(text) == [type |-> "str", int |-> 0, str |-> text]

\* int(blocks): the number itself, the number a string of digits spells, a
\* ValueError for any other string.
Digits == [d \in {"1", "2", "3"} |->
              IF d = "1" THEN 1 ELSE IF d = "2" THEN 2 ELSE 3]
ToInt(v) ==
    IF v.type = "int" THEN Returns(v.int)
    ELSE IF v.str \in DOMAIN Digits THEN Returns(Digits[v.str])
    ELSE Raises("ValueError")

Floor == [x \in 0..(MapW - 1), y \in 0..(MapH - 1) |-> 1]
Wall == [x \in 0..(MapW - 1), y \in 0..(MapH - 1) |->
            IF x = 1 /\ y = 0 THEN 7 ELSE 0]
Torch == [x \in 0..(MapW - 1), y \in 0..(MapH - 1) |->
            IF x = 0 /\ y = 0 THEN 9 ELSE 0]

TiledMap(layers) ==
    [width |-> MapW, height |-> MapH, tilewidth |-> TILE_SIZE,
     tileheight |-> TILE_SIZE, layers |-> layers]

\* The level files on disk, by level name.  "level-1" is the program's
\* LEVEL_SEQUENCE entry; the others are inputs: a map with no colliders
\* layer, a map whose second enemy has a blocks property that is no number,
\* a map where two enemies come to stand on the player's tile, and a map of
\* no tiles.  The info objects name the music: "level-1" a
\* file that exists, "open" one that does not.  A name outside the domain
\* has no file.
Files ==
    [x \in {"level-1"} |->
        TiledMap(<<TileLayer("background", Cells(MapW, MapH, Floor)),
                   TileLayer("colliders", Cells(MapW, MapH, Wall)),
                   TileLayer("animated", Cells(MapW, MapH, Torch)),
                   ObjectLayer("entities",
                       <<Obj("player", 3, TILE_SIZE + 5, NoProps),
                         Obj("enemy", 2 * TILE_SIZE, TILE_SIZE,
                             [k \in {"blocks"} |-> StrValue("1")]),
                         Obj("info", 0, 0,
                             [k \in {"music"} |-> "dungeon"])>>)>>)]
    @@ [x \in {"open"} |->
        TiledMap(<<TileLayer("background", Cells(MapW, MapH, Floor)),
                   ObjectLayer("entities",
                       <<Obj("Info", 0, 0, [k \in {"music"} |-> "lost"]),
                         Obj("Player", TILE_SIZE, 0, NoProps)>>)>>)]
    @@ [x \in {"badblocks"} |->
        TiledMap(<<TileLayer("background", Cells(MapW, MapH, Floor)),
                   TileLayer("colliders", Cells(MapW, MapH, Wall)),
                   ObjectLayer("entities",
                       <<Obj("enemy", 0, 0, NoProps),
                         Obj("enemy", TILE_SIZE, TILE_SIZE,
                             [k \in {"blocks"} |-> StrValue("two")]),
                         Obj("player", 0, TILE_SIZE, NoProps)>>)>>)]
    @@ [x \in {"crowd"} |->
        TiledMap(<<TileLayer("background", Cells(MapW, MapH, Floor)),
                   TileLayer("animated", Cells(MapW, MapH, Torch)),
                   ObjectLayer("entities",
                       <<Obj("enemy", 0, 0, NoProps),
                         Obj("enemy", 0, TILE_SIZE,
                             [k \in {"blocks"} |-> IntValue(1)]),
                         Obj("player", TILE_SIZE, TILE_SIZE, NoProps),
                         Obj("enemy", TILE_SIZE, TILE_SIZE,
                             [k \in {"blocks", "enemy_movement"} |->
                                 IF k = "blocks" THEN IntValue(1)
                                 ELSE "vertical"])>>)>>)]
    @@ [x \in {"void"} |->
        [width |-> 0, height |-> 0, tilewidth |-> TILE_SIZE,
         tileheight |-> TILE_SIZE, layers |-> <<>>]]
    @@ [x \in {"twins"} |->
        TiledMap(<<TileLayer("background", Cells(MapW, MapH, Floor)),
                   ObjectLayer("entities",
                       <<Obj("player", 3, 5, NoProps),
                         Obj("enemy", TILE_SIZE, TILE_SIZE,
                             [k \in {"enemy_type"} |-> "bat"]),
                         Obj("Player", 2 * TILE_SIZE + 1, TILE_SIZE + 1,
                             NoProps),
                         Obj("chest", 0, TILE_SIZE, NoProps)>>)>>)]
    @@ [x \in {"mobs"} |->
        TiledMap(<<TileLayer("background", Cells(MapW, MapH, Floor)),
                   ObjectLayer("entities",
                       <<Obj("enemy", 0, 0, NoProps),
                         Obj("enemy", TILE_SIZE, 0,
                             [k \in {"enemy_movement"} |-> "vertical"]),
                         Obj("Enemy", 2 * TILE_SIZE, 0,
                             [k \in {"blocks"} |-> IntValue(3)]),
                         Obj("enemy", 0, TILE_SIZE,
                             [k \in {"enemy_type", "blocks"} |->
                                 IF k = "blocks" THEN StrValue("1")
                                 ELSE "bat"])>>)>>)]

\* The level names the loader is given: the files above, and a name with no
\* file.  "twins" (two player objects) and "mobs" (no player object, enemies
\* with some of their properties) are given to the loader of SpecEntities.
LevelNames == {"level-1", "open", "badblocks", "crowd", "void", "missing"}

\* The first layer of the map with this name, and with data when a tile
\* layer is wanted; <<>> when there is none.
FindLayer(layers, name, need_data) ==
    LET hits == {i \in 1..Len(layers) :
                    layers[i].name = name /\ (need_data => layers[i].has_data)}
    IN  IF hits = {} THEN <<>>
        ELSE <<layers[CHOOSE i \in hits : \A j \in hits : i <= j]>>

\* ------------------------------------------------------------ LevelLoader

\* A grid builder that marks every cell of the map blocked when the map has
\* no colliders layer.
create_collision_grid_closed(tmx) ==
    LET layer == FindLayer(tmx.layers, "colliders", TRUE)
    IN  [row \in 1..tmx.height |-> [col \in 1..tmx.width |->
            IF layer = <<>> THEN TRUE
            ELSE \E i \in 1..Len(layer[1].cells) :
                    /\ layer[1].cells[i][3] # 0
                    /\ layer[1].cells[i][1] = col - 1
                    /\ layer[1].cells[i][2] = row - 1]]

\* _create_collision_grid: all False, then True at every cell of the
\* colliders layer that holds a tile and lies inside the grid.
create_collision_grid(tmx) ==
    LET layer == FindLayer(tmx.layers, "colliders", TRUE)
    IN  [row \in 1..tmx.height |-> [col \in 1..tmx.width |->
            IF layer = <<>> THEN FALSE
            ELSE \E i \in 1..Len(layer[1].cells) :
                    /\ layer[1].cells[i][3] # 0
                    /\ layer[1].cells[i][1] = col - 1
                    /\ layer[1].cells[i][2] = row - 1]]

\* _render_background: a surface of the level's size with the tiles of the
\* background layer, then those of the colliders layer, blitted in order.
LayerBlits(tmx, name) ==
    LET layer == FindLayer(tmx.layers, name, TRUE)
    IN  IF layer = <<>> THEN <<>>
        ELSE SelectSeq([i \in 1..Len(layer[1].cells) |->
                          <<layer[1].cells[i][1] * tmx.tilewidth,
                            layer[1].cells[i][2] * tmx.tileheight,
                            layer[1].cells[i][3]>>],
                       LAMBDA b : b[3] # 0)

render_background(tmx) ==
    [size |-> <<tmx.width * tmx.tilewidth, tmx.height * tmx.tileheight>>,
     blits |-> LayerBlits(tmx, "background") \o LayerBlits(tmx, "colliders")]

\* The music files on disk, by the name an info object gives.
MusicFiles == {"dungeon"}

\* _load_level_music: [exc, calls].  music.stop(), then music.play(name)
\* when the file exists; whatever either raises is caught and printed.
load_level_music(music_filename, broken) ==
    IF SinkCall(broken, "music.stop").exc # None
    THEN [exc |-> None, calls |-> <<"music.stop">>]
    ELSE IF music_filename \in MusicFiles
         THEN [exc |-> None, calls |-> <<"music.stop", "music.play">>]
         ELSE [exc |-> None, calls |-> <<"music.stop">>]

\* A lookup that falls back to every default as soon as the object has no
\* enemy_type.
Prop_defaults_together(obj, key, default) ==
    IF "enemy_type" \in DOMAIN obj.properties /\ key \in DOMAIN obj.properties
    THEN obj.properties[key] ELSE default

\* getattr(obj, key, default) with the fallback to obj.properties.get.
Prop(obj, key, default) ==
    IF key \in DOMAIN obj.properties THEN obj.properties[key] ELSE default

Lower(name) == IF name = "Player" THEN "player"
               ELSE IF name = "Enemy" THEN "enemy"
               ELSE IF name = "Info" THEN "info" ELSE name

\* The loop of _load_entities over the placed objects from the i-th on:
\* [entities, player, exc, calls], exc the exception that ended the loop and
\* calls the calls made on the audio sink.
RECURSIVE LoadObjects(_, _, _, _, _, _, _)
LoadObjects(objs, i, ents, pref, calls, t, broken) ==
    IF i > Len(objs)
    THEN [entities |-> ents, player |-> pref, exc |-> None, calls |-> calls]
    ELSE LET obj == objs[i]
             entity_name == Lower(obj.name)
         IN  IF entity_name = "player"
             THEN LoadObjects(objs, i + 1,
                      Append(ents, Player_init(obj.x, obj.y, t)),
                      Len(ents) + 1, calls, t, broken)
             ELSE IF entity_name = "enemy"
             THEN LET blocks == ToInt(Prop(obj, "blocks", IntValue(2)))
                  IN  IF blocks.exc # None
                      THEN [entities |-> ents, player |-> pref,
                            exc |-> blocks.exc, calls |-> calls]
                      ELSE LoadObjects(objs, i + 1,
                               Append(ents,
                                   Enemy_init(obj.x, obj.y,
                                       Prop(obj, "enemy_type", "rat"),
                                       Prop(obj, "enemy_movement", "horizontal"),
                                       blocks.val, t)),
                               pref, calls, t, broken)
             ELSE IF entity_name = "info"
             THEN LET music_file == Prop(obj, "music", "")
                      music == load_level_music(music_file, broken)
                  IN  IF music_file = ""
                      THEN LoadObjects(objs, i + 1, ents, pref, calls, t, broken)
                      ELSE IF music.exc # None
                      THEN [entities |-> ents, player |-> pref,
                            exc |-> music.exc, calls |-> calls \o music.calls]
                      ELSE LoadObjects(objs, i + 1, ents, pref,
                                       calls \o music.calls, t, broken)
             ELSE LoadObjects(objs, i + 1, ents, pref, calls, t, broken)

\* _load_entities that tracks the first player object placed.
load_entities_first_player(tmx, t, broken) ==
    LET layer == FindLayer(tmx.layers, "entities", FALSE)
        r == LoadObjects(layer[1].objects, 1, <<>>, 0, <<>>, t, broken)
        players == {i \in 1..Len(r.entities) : r.entities[i].kind = "Player"}
    IN  IF layer = <<>>
        THEN [entities |-> <<>>, player |-> 0, exc |-> None, calls |-> <<>>]
        ELSE [r EXCEPT !.player =
                  IF players = {} THEN 0
                  ELSE CHOOSE i \in players : \A j \in players : i <= j]

\* _load_entities: the lists are cleared first.
load_entities(tmx, t, broken) ==
    LET layer == FindLayer(tmx.layers, "entities", FALSE)
    IN  IF layer = <<>>
        THEN [entities |-> <<>>, player |-> 0, exc |-> None, calls |-> <<>>]
        ELSE LoadObjects(layer[1].objects, 1, <<>>, 0, <<>>, t, broken)

\* _load_animated_tiles: one AnimatedTile per cell of the animated layer
\* that holds a tile.
load_animated_tiles(tmx, t) ==
    LET layer == FindLayer(tmx.layers, "animated", TRUE)
    IN  IF layer = <<>> THEN <<>>
        ELSE LET held == SelectSeq(layer[1].cells, LAMBDA c : c[3] # 0)
             IN  [i \in 1..Len(held) |->
                     [x |-> held[i][1] * tmx.tilewidth,
                      y |-> held[i][2] * tmx.tileheight,
                      tile_gid |-> held[i][3],
                      current_frame |-> 0,
                      last_frame_time |-> t]]

\* The level state of a LevelLoader, as one record.
LevelState(tmx, bg, ents, pref, grid, tiles) ==
    [tmx_data |-> tmx, bg_surface |-> bg, entities |-> ents, player |-> pref,
     collision_grid |-> grid, animated_tiles |-> tiles]

\* LevelLoader.__init__ before its load_current_level call.
BlankLevel == LevelState(None, <<>>, <<>>, 0, <<>>, <<>>)

\* load_current_level on level state L: [state, ret, calls].  Each stage
\* assigns its field as it runs; an exception leaves what was assigned so far.
load_current_level(L, seq, index, t, broken) ==
    IF index >= Len(seq) THEN [state |-> L, ret |-> FALSE, calls |-> <<>>]
    ELSE LET level_name == seq[index + 1]
         IN  IF level_name \notin DOMAIN Files
             THEN [state |-> L, ret |-> FALSE, calls |-> <<>>]
             ELSE LET tmx == Files[level_name]
                      loaded == load_entities(tmx, t, broken)
                      L3 == [L EXCEPT !.tmx_data = level_name,
                                      !.collision_grid = create_collision_grid(tmx),
                                      !.bg_surface = <<render_background(tmx)>>,
                                      !.entities = loaded.entities,
                                      !.player = loaded.player]
                  IN  IF loaded.exc # None
                      THEN [state |-> L3, ret |-> FALSE, calls |-> loaded.calls]
                      ELSE [state |-> [L3 EXCEPT !.animated_tiles =
                                           load_animated_tiles(tmx, t)],
                            ret |-> TRUE, calls |-> loaded.calls]

\* ------------------------------------------------------------ one frame

\* The animation Tiled stores for a tile: the torch has two frames of 0.5 s,
\* every other tile is static.
TileAnimation(gid) ==
    IF gid = 9 THEN [frames |-> 2, frame_duration |-> 10]
    ELSE [frames |-> 1, frame_duration |-> 10]

AnimatedTile_update(tile, t) ==
    IF TileAnimation(tile.tile_gid).frames <= 1 THEN tile
    ELSE IF t - tile.last_frame_time >= TileAnimation(tile.tile_gid).frame_duration
         THEN [tile EXCEPT !.current_frame =
                              (@ + 1) % TileAnimation(tile.tile_gid).frames,
                           !.last_frame_time = t]
         ELSE tile

\* pygame.Rect(a.x, a.y, TILE_SIZE, TILE_SIZE).colliderect of b's: the two
\* squares share area; touching edges do not collide.
colliderect(a, b) ==
    /\ a.x < b.x + TILE_SIZE /\ b.x < a.x + TILE_SIZE
    /\ a.y < b.y + TILE_SIZE /\ b.y < a.y + TILE_SIZE

\* The collision pass that goes on to the next enemy after a hit.
check_player_enemy_collisions_all(ents, pref, t) ==
    IF pref = 0 THEN ents
    ELSE IF ents[pref].is_invincible THEN ents
    ELSE LET hits == {i \in 1..Len(ents) :
                         ents[i].kind = "Enemy" /\ colliderect(ents[pref], ents[i])}
         IN  [ents EXCEPT ![pref] =
                 [@ EXCEPT !.current_health =
                      IF @ - Cardinality(hits) < 0 THEN 0
                      ELSE @ - Cardinality(hits)]]

\* check_player_enemy_collisions: the entities after the pass.  The loop
\* breaks at the first enemy whose rectangle meets the player's.
check_player_enemy_collisions(ents, pref, t) ==
    IF pref = 0 THEN ents
    ELSE IF ents[pref].is_invincible THEN ents
    ELSE LET hits == {i \in 1..Len(ents) :
                         ents[i].kind = "Enemy" /\ colliderect(ents[pref], ents[i])}
         IN  IF hits = {} THEN ents
             ELSE [ents EXCEPT ![pref] = take_damage(@, 1, t).self]

\* The entity loop of LevelLoader.update from the i-th entity on: [entities,
\* exc, updated, raised].  An entity of `faulty' raises from its update; nothing
\* catches it.
RECURSIVE UpdateEntities(_, _, _, _, _, _)
UpdateEntities(ents, i, done, grid, t, faulty) ==
    IF i > Len(ents)
    THEN [entities |-> ents, exc |-> None, updated |-> done, raised |-> {}]
    ELSE IF i \in faulty
    THEN [entities |-> ents, exc |-> "RuntimeError", updated |-> done,
          raised |-> {i}]
    ELSE IF ents[i].kind = "Enemy"
    THEN LET r == Enemy_update(ents[i], TRUE, grid, t)
         IN  IF r.exc # None
             THEN [entities |-> ents, exc |-> r.exc, updated |-> done,
                   raised |-> {i}]
             ELSE UpdateEntities([ents EXCEPT ![i] = r.self], i + 1,
                                 done \cup {i}, grid, t, faulty)
    ELSE UpdateEntities([ents EXCEPT ![i] = Player_update(@, t)], i + 1,
                        done \cup {i}, grid, t, faulty)

\* LevelLoader.update on level state L: [state, exc, frame].  The animated
\* tiles, then the entities in list order, then the collision pass.  The
\* history `frame' keeps the entities whose update returned, the one whose
\* update raised, how many collision passes ran and the entities as the pass
\* found them.
LevelLoader_update(L, t, faulty) ==
    LET tiles == [i \in 1..Len(L.animated_tiles) |->
                     AnimatedTile_update(L.animated_tiles[i], t)]
        L1 == [L EXCEPT !.animated_tiles = tiles]
        u == UpdateEntities(L.entities, 1, {}, L.collision_grid, t, faulty)
        L2 == [L1 EXCEPT !.entities = u.entities]
    IN  IF u.exc # None
        THEN [state |-> L2, exc |-> u.exc,
              frame |-> [updated |-> u.updated, raised |-> u.raised,
                         at_pass |-> <<>>, passes |-> 0]]
        ELSE [state |-> [L2 EXCEPT !.entities =
                            check_player_enemy_collisions(u.entities, L.player, t)],
              exc |-> None,
              frame |-> [updated |-> u.updated, raised |-> u.raised,
                         at_pass |-> u.entities, passes |-> 1]]

\* move_player that leaves every check to Player.move.
move_player_unchecked(L, dx, dy, clock) ==
    IF L.player = 0 THEN [state |-> L, ret |-> FALSE, exc |-> None]
    ELSE LET p == L.entities[L.player]
             size == IF L.tmx_data = None THEN <<0, 0>>
                     ELSE <<Files[L.tmx_data].width * Files[L.tmx_data].tilewidth,
                            Files[L.tmx_data].height * Files[L.tmx_data].tileheight>>
             r == Player_move(p, dx, dy, size[1], size[2], clock)
         IN  [state |-> [L EXCEPT !.entities[L.player] = r.self],
              ret |-> r.ret, exc |-> None]

\* get_level_size.
get_level_size(L) ==
    IF L.tmx_data = None THEN <<0, 0>>
    ELSE <<Files[L.tmx_data].width * Files[L.tmx_data].tilewidth,
           Files[L.tmx_data].height * Files[L.tmx_data].tileheight>>

\* move_player(dx, dy): [state, ret, exc].
move_player(L, dx, dy, clock) ==
    IF L.player = 0 THEN [state |-> L, ret |-> FALSE, exc |-> None]
    ELSE LET p == L.entities[L.player]
             blocked == is_position_blocked(L.collision_grid,
                            p.x + dx * TILE_SIZE, p.y + dy * TILE_SIZE)
             size == get_level_size(L)
             r == Player_move(p, dx, dy, size[1], size[2], clock)
         IN  IF blocked.exc # None
             THEN [state |-> L, ret |-> FALSE, exc |-> blocked.exc]
             ELSE IF blocked.val
             THEN [state |-> L, ret |-> FALSE, exc |-> None]
             ELSE [state |-> [L EXCEPT !.entities[L.player] = r.self],
                   ret |-> r.ret, exc |-> None]

\* ------------------------------------------------------------ drawing

\* screen.blit(what, (x, y)): layer names the part of draw that made it, n
\* the place in its list of the tile or entity drawn.
Blit(layer, n, what, x, y) ==
    [layer |-> layer, n |-> n, what |-> what, x |-> x, y |-> y]

\* AnimatedSprite.get_current_frame: <<>> for None.
get_current_frame(s) ==
    IF s.current_animation = None THEN <<>>
    ELSE <<s.current_animation, s.current_frame>>

\* Only what is on screen is drawn (basic culling).
OnScreen(screen_x, screen_y) ==
    /\ -TILE_SIZE <= screen_x /\ screen_x <= WIDTH
    /\ -TILE_SIZE <= screen_y /\ screen_y <= HEIGHT

\* Player.draw: the sprite, not drawn in every other 0.1 s of the
\* invincibility that follows the hurt time, then the sword of an attacking
\* player, 16 pixels up and left.
Player_draw(p, n, t) ==
    LET should_draw ==
            (p.is_invincible /\ ~p.is_hurt)
            => ((t - p.invincibility_start_time) \div 2) % 2 = 0
        current_frame == get_current_frame(p.sprite)
        sword_frame == get_current_frame(p.sword_sprite)
    IN  (IF should_draw /\ current_frame # <<>>
         THEN <<Blit("entity", n, current_frame, p.x, p.y)>> ELSE <<>>)
        \o (IF p.is_attacking /\ sword_frame # <<>>
            THEN <<Blit("entity", n, sword_frame, p.x - 16, p.y - 16)>>
            ELSE <<>>)

Enemy_draw(e, n) ==
    IF get_current_frame(e.sprite) # <<>>
    THEN <<Blit("entity", n, get_current_frame(e.sprite), e.x, e.y)>>
    ELSE <<>>

\* UI.draw: a full heart for each health point the player has.
UI_draw(p) ==
    LET hearts == SelectSeq([i \in 1..max_health |-> i - 1],
                            LAMBDA i : i < p.current_health)
    IN  [k \in 1..Len(hearts) |->
            Blit("ui", k, "full_heart", 16 + hearts[k] * TILE_SIZE, 16)]

\* draw_debug_collision: nothing unless the debug flag is set; then a red
\* rectangle on each blocked tile, row by row, and a blue one on each
\* animated tile.
draw_debug_collision(L, debug) ==
    IF ~debug THEN <<>>
    ELSE LET grid == L.collision_grid
             w == IF Len(grid) = 0 THEN 0 ELSE Len(grid[1])
             cells == [k \in 1..(Len(grid) * w) |->
                          <<(k - 1) % w, (k - 1) \div w>>]
             red == SelectSeq(cells,
                        LAMBDA c : grid[c[2] + 1][c[1] + 1]
                                   /\ OnScreen(c[1] * TILE_SIZE, c[2] * TILE_SIZE))
             blue == SelectSeq(L.animated_tiles, LAMBDA tile : OnScreen(tile.x, tile.y))
         IN  [k \in 1..Len(red) |->
                 Blit("debug", k, "red", red[k][1] * TILE_SIZE, red[k][2] * TILE_SIZE)]
             \o [k \in 1..Len(blue) |->
                 Blit("debug", k, "blue", blue[k].x, blue[k].y)]

\* The loop of draw over the entities from the i-th on.
RECURSIVE DrawEntities(_, _, _)
DrawEntities(ents, i, t) ==
    IF i > Len(ents) THEN <<>>
    ELSE (IF ents[i].kind = "Player" THEN Player_draw(ents[i], i, t)
          ELSE Enemy_draw(ents[i], i))
         \o DrawEntities(ents, i + 1, t)

\* The parts of LevelLoader.draw (the camera stays at (0, 0)).
DrawBackground(L) ==
    IF L.bg_surface # <<>>
    THEN <<Blit("background", 1, "bg_surface", 0, 0)>> ELSE <<>>
DrawAnimatedTiles(L) ==
    LET shown == SelectSeq([k \in 1..Len(L.animated_tiles) |->
                               [n |-> k, tile |-> L.animated_tiles[k]]],
                           LAMBDA d : OnScreen(d.tile.x, d.tile.y))
    IN  [k \in 1..Len(shown) |->
            Blit("tile", shown[k].n,
                 <<shown[k].tile.tile_gid, shown[k].tile.current_frame>>,
                 shown[k].tile.x, shown[k].tile.y)]
DrawUI(L) ==
    IF L.player # 0 THEN UI_draw(L.entities[L.player]) ELSE <<>>

\* A draw that puts the health overlay under the entities.
LevelLoader_draw_ui_under_entities(L, debug, t) ==
    DrawBackground(L) \o DrawAnimatedTiles(L) \o DrawUI(L)
    \o DrawEntities(L.entities, 1, t) \o draw_debug_collision(L, debug)

\* LevelLoader.draw(screen): the blits it makes, in order.
LevelLoader_draw(L, debug, t) ==
    DrawBackground(L) \o DrawAnimatedTiles(L) \o DrawEntities(L.entities, 1, t)
    \o DrawUI(L) \o draw_debug_collision(L, debug)

\* ------------------------------------------------------------ state

vars == <<now, spr, spr_exact, spr_last_call, spr_consumed, spr_call, pl, ret, exc, audio, op, dmg,
          move_log, en, en_leg, level_sequence, current_level_index, tmx_data,
          bg_surface, entities, player, collision_grid, animated_tiles, query, frame,
          DEBUG_MODE_ON, screen>>

spriteVars == <<spr, spr_exact, spr_last_call, spr_consumed, spr_call>>
playerVars == <<pl, dmg, move_log>>
enemyVars == <<en, en_leg>>
levelVars == <<tmx_data, bg_surface, entities, player, collision_grid,
               animated_tiles>>
loaderVars == <<level_sequence, current_level_index, levelVars>>
drawVars == <<DEBUG_MODE_ON, screen>>

\* The level state of the loader, as load_current_level takes it.
Level == LevelState(tmx_data, bg_surface, entities, player, collision_grid,
                    animated_tiles)

SetLevel(L) ==
    /\ tmx_data' = L.tmx_data
    /\ bg_surface' = L.bg_surface
    /\ entities' = L.entities
    /\ player' = L.player
    /\ collision_grid' = L.collision_grid
    /\ animated_tiles' = L.animated_tiles

IsLevel(L) ==
    /\ tmx_data = L.tmx_data
    /\ bg_surface = L.bg_surface
    /\ entities = L.entities
    /\ player = L.player
    /\ collision_grid = L.collision_grid
    /\ animated_tiles = L.animated_tiles

NoQuery == [kind |-> "none", grid |-> <<>>, x |-> 0, y |-> 0,
            res |-> Returns(TRUE)]
NoDamage == [calls |-> 0, last |-> 0, spaced |-> TRUE, updated |-> TRUE,
             upd |-> FALSE, accepted |-> -1]
NoMoves == [last |-> -1, run |-> <<>>, ok_time |-> -1]
NoCall == [name |-> None, reset |-> FALSE, before |-> AnimatedSprite_init]
NoFrame == [updated |-> {}, raised |-> {}, at_pass |-> <<>>, passes |-> 0]
NoDraw == DEBUG_MODE_ON = FALSE /\ screen = <<>>
NoLeg == [x |-> 0, y |-> 0, steps |-> 0, idle_at |-> -1]

\* The parts of the state a specification does not use.
IdleSprite ==
    /\ spr = AnimatedSprite_init
    /\ spr_exact = -1
    /\ spr_last_call = 0
    /\ spr_consumed = 0
    /\ spr_call = NoCall
IdlePlayer ==
    /\ pl = Player_init(0, 0, StartTime)
    /\ dmg = NoDamage
    /\ move_log = NoMoves
IdleEnemy ==
    /\ en = Enemy_init(0, 0, "rat", "horizontal", 2, StartTime)
    /\ en_leg = NoLeg
IdleLoader ==
    /\ level_sequence = <<>>
    /\ current_level_index = 0
    /\ IsLevel(BlankLevel)
    /\ query = NoQuery

\* ------------------------------------------------------------ the loader

\* The longest level sequence the loader is given.
MaxLevels == 2

LevelSequences ==
    UNION {[1..n -> LevelNames] : n \in 1..MaxLevels}

\* LevelLoader.__init__: the fields, then the first load_current_level.
InitLoader ==
    /\ now = StartTime
    /\ IdleSprite /\ IdlePlayer /\ IdleEnemy
    /\ level_sequence \in LevelSequences
    /\ current_level_index = 0
    /\ \E broken \in SUBSET {"music.stop", "music.play"} :
          LET r == load_current_level(BlankLevel, level_sequence, 0, now, broken)
          IN  /\ IsLevel(r.state)
              /\ ret = r.ret
              /\ audio = Heard(r.calls, broken)
    /\ op = "__init__"
    /\ exc = None
    /\ frame = NoFrame
    /\ NoDraw
    /\ query = NoQuery

NextLevel ==
    /\ current_level_index <= MaxLevels
    /\ current_level_index' = current_level_index + 1
    /\ \E broken \in SUBSET {"music.stop", "music.play"} :
          LET r == load_current_level(Level, level_sequence,
                                      current_level_index + 1, now, broken)
          IN  /\ SetLevel(r.state) /\ ret' = r.ret
              /\ audio' = Heard(r.calls, broken)
    /\ op' = "next_level"
    /\ exc' = None
    /\ UNCHANGED <<drawVars, frame, now, spriteVars, playerVars, enemyVars, level_sequence, query>>

LoadCurrentLevel ==
    /\ \E broken \in SUBSET {"music.stop", "music.play"} :
          LET r == load_current_level(Level, level_sequence,
                                      current_level_index, now, broken)
          IN  /\ SetLevel(r.state) /\ ret' = r.ret
              /\ audio' = Heard(r.calls, broken)
    /\ op' = "load_current_level"
    /\ exc' = None
    /\ UNCHANGED <<drawVars, frame, now, spriteVars, playerVars, enemyVars, level_sequence,
                   current_level_index, query>>

TileProbes == (-1..(MapW + 1)) \X (-1..(MapH + 1))
PixelProbes ==
    {k * TILE_SIZE + o : k \in -1..MapW, o \in {0, TILE_SIZE - 1}}
    \X {k * TILE_SIZE + o : k \in -1..MapH, o \in {0, TILE_SIZE - 1}}

QueryTile ==
    /\ \E c \in TileProbes :
          query' = [kind |-> "tile", grid |-> collision_grid,
                    x |-> c[1], y |-> c[2],
                    res |-> is_tile_blocked(collision_grid, c[1], c[2])]
    /\ UNCHANGED <<drawVars, frame, audio, exc, now, spriteVars, playerVars, enemyVars, loaderVars, ret, op>>

QueryPosition ==
    /\ \E c \in PixelProbes :
          query' = [kind |-> "position", grid |-> collision_grid,
                    x |-> c[1], y |-> c[2],
                    res |-> is_position_blocked(collision_grid, c[1], c[2])]
    /\ UNCHANGED <<drawVars, frame, audio, exc, now, spriteVars, playerVars, enemyVars, loaderVars, ret, op>>

NextLoader == NextLevel \/ LoadCurrentLevel \/ QueryTile \/ QueryPosition

SpecLoader == InitLoader /\ [][NextLoader]_vars

\* ------------------------------------------------------------ placed objects

\* The loader given levels with no, one and two player objects, enemies
\* with and without their optional properties, a level whose load fails
\* half way and a name with no file.
EntityLevels == {"level-1", "twins", "mobs", "crowd", "badblocks", "missing"}

InitEntities ==
    /\ now = StartTime
    /\ IdleSprite /\ IdlePlayer /\ IdleEnemy
    /\ level_sequence \in UNION {[1..n -> EntityLevels] : n \in 1..MaxLevels}
    /\ current_level_index = 0
    /\ \E broken \in SUBSET {"music.stop", "music.play"} :
          LET r == load_current_level(BlankLevel, level_sequence, 0, now, broken)
          IN  /\ IsLevel(r.state)
              /\ ret = r.ret
              /\ audio = Heard(r.calls, broken)
    /\ op = "__init__"
    /\ exc = None
    /\ frame = NoFrame
    /\ NoDraw
    /\ query = NoQuery

NextEntities == NextLevel \/ LoadCurrentLevel

SpecEntities == InitEntities /\ [][NextEntities]_vars

\* ------------------------------------------------------------ the screen

\* The levels drawn, how long the game is followed and by which steps of
\* time (ticks).
DrawLevels == {"level-1", "crowd", "mobs", "missing"}
DrawHorizon == 36
DrawStep == 3

InitDraw ==
    /\ now = StartTime
    /\ IdleSprite /\ IdlePlayer /\ IdleEnemy
    /\ \E name \in DrawLevels : level_sequence = <<name>>
    /\ current_level_index = 0
    /\ LET r == load_current_level(BlankLevel, level_sequence, 0, now, {})
       IN  /\ IsLevel(r.state)
           /\ ret = r.ret
           /\ audio = Heard(r.calls, {})
    /\ op = "__init__"
    /\ exc = None
    /\ frame = NoFrame
    /\ NoDraw
    /\ query = NoQuery

\* pgzero's update(): time passes and LevelLoader.update() runs.
DrawUpdate ==
    /\ now + DrawStep <= StartTime + DrawHorizon
    /\ now' = now + DrawStep
    /\ LET r == LevelLoader_update(Level, now', {})
       IN  /\ SetLevel(r.state)
           /\ exc' = r.exc
           /\ frame' = r.frame
    /\ op' = "LevelLoader.update"
    /\ audio' = Silent
    /\ screen' = <<>>
    /\ UNCHANGED <<spriteVars, playerVars, enemyVars, level_sequence,
                   current_level_index, ret, query, DEBUG_MODE_ON>>

\* The space key: start_attack on the level's player.
KeySpace ==
    /\ player # 0
    /\ LET r == start_attack(entities[player], now, {})
       IN  /\ entities' = [entities EXCEPT ![player] = r.self]
           /\ ret' = r.ret
           /\ exc' = r.exc
           /\ audio' = Heard(r.calls, {})
    /\ op' = "start_attack"
    /\ screen' = <<>>
    /\ UNCHANGED <<now, spriteVars, playerVars, enemyVars, level_sequence,
                   current_level_index, tmx_data, bg_surface, player,
                   collision_grid, animated_tiles, query, frame,
                   DEBUG_MODE_ON>>

\* The d key.
ToggleDebugMode ==
    /\ DEBUG_MODE_ON' = ~DEBUG_MODE_ON
    /\ op' = "toggle_debug_mode"
    /\ exc' = None
    /\ audio' = Silent
    /\ screen' = <<>>
    /\ UNCHANGED <<now, spriteVars, playerVars, enemyVars, loaderVars, ret,
                   query, frame>>

\* pgzero's draw(): the screen is cleared and LevelLoader.draw runs.
LoaderDraw ==
    /\ screen' = LevelLoader_draw(Level, DEBUG_MODE_ON, now)
    /\ op' = "LevelLoader.draw"
    /\ exc' = None
    /\ audio' = Silent
    /\ UNCHANGED <<now, spriteVars, playerVars, enemyVars, loaderVars, ret,
                   query, frame, DEBUG_MODE_ON>>

NextDraw == DrawUpdate \/ KeySpace \/ ToggleDebugMode \/ LoaderDraw

SpecDraw == InitDraw /\ [][NextDraw]_vars

\* ------------------------------------------------------------ a sprite alone

\* How long, in ticks, the stand-alone sprite is followed.
SpriteHorizon == 12

\* The clips given to the stand-alone sprite: the sword's two non-looping
\* five-frame clips, a looping three-frame clip of 0.1 s a frame and a
\* looping two-frame clip of 0.15 s a frame.
sprite_animations ==
    sword_animations
    @@ [spin  |-> [frames |-> Frames(0, 3, 0), duration |-> 2, loop |-> TRUE],
        blink |-> [frames |-> Frames(1, 2, 0), duration |-> 3, loop |-> TRUE]]

ClipNames == DOMAIN sprite_animations \cup {"unknown"}

InitSprite ==
    /\ now = StartTime
    /\ IdleSprite /\ IdlePlayer /\ IdleEnemy /\ IdleLoader
    /\ ret = FALSE
    /\ op = "__init__"
    /\ exc = None
    /\ frame = NoFrame
    /\ NoDraw
    /\ audio = Silent

Min(a, b) == IF a < b THEN a ELSE b

\* play_animation(name, reset).  The history restarts with every call that
\* (re)starts a known clip.
SpritePlay ==
    /\ \E name \in ClipNames, reset \in BOOLEAN :
          /\ spr' = play_animation(sprite_animations, spr, name, reset, now)
          /\ spr_call' = [name |-> name, reset |-> reset, before |-> spr]
          /\ IF name \in DOMAIN sprite_animations
                /\ (reset \/ name # spr.current_animation)
             THEN spr_exact' = 0 /\ spr_consumed' = 0 /\ spr_last_call' = now
             ELSE UNCHANGED <<spr_exact, spr_consumed, spr_last_call>>
    /\ op' = "play_animation"
    /\ exc' = None
    /\ audio' = Silent
    /\ UNCHANGED <<drawVars, frame, now, playerVars, enemyVars, loaderVars, query, ret>>

\* update().  spr_exact counts the calls made exactly one clip duration
\* after the previous call; spr_consumed those that found a whole duration
\* elapsed since the last frame change (no further than the clip's length).
SpriteUpdate ==
    /\ spr' = AnimatedSprite_update(sprite_animations, spr, now)
    /\ spr_call' = [NoCall EXCEPT !.before = spr]
    /\ IF spr.current_animation = None
       THEN UNCHANGED <<spr_exact, spr_consumed, spr_last_call>>
       ELSE LET clip == sprite_animations[spr.current_animation]
            IN  /\ spr_exact' = IF spr_exact >= 0
                                   /\ now - spr_last_call = clip.duration
                                THEN spr_exact + 1 ELSE -1
                /\ spr_consumed' =
                       IF now - spr.last_frame_time >= clip.duration
                       THEN Min(spr_consumed + 1, Len(clip.frames))
                       ELSE spr_consumed
                /\ spr_last_call' = now
    /\ op' = "update"
    /\ exc' = None
    /\ audio' = Silent
    /\ UNCHANGED <<drawVars, frame, now, playerVars, enemyVars, loaderVars, query, ret>>

SpriteTick ==
    /\ now < StartTime + SpriteHorizon
    /\ now' = now + 1
    /\ op' = "tick"
    /\ exc' = None
    /\ audio' = Silent
    /\ UNCHANGED <<drawVars, frame, spriteVars, playerVars, enemyVars, loaderVars, query, ret>>

NextSprite == SpritePlay \/ SpriteUpdate \/ SpriteTick

SpecSprite == InitSprite /\ [][NextSprite]_vars

\* ------------------------------------------------------------ a player alone

\* How long, in ticks, the stand-alone player is followed: by steps of
\* CoarseStep ticks in SpecPlayer (every call) and SpecDamage (every call
\* but move), by single ticks in SpecPlayerFine.
PlayerHorizon == 40
DamageHorizon == 90
FineHorizon == 7
CoarseStep == 10

\* pygame.time.get_ticks() / 1000.0: the time since the program started.
get_ticks == now - StartTime

\* Where the stand-alone player is placed, in pixels (off the tile origin).
SpawnPoint == <<TILE_SIZE + 3, 5>>

InitPlayer ==
    /\ now = StartTime
    /\ IdleSprite /\ IdleEnemy /\ IdleLoader
    /\ pl = Player_init(SpawnPoint[1], SpawnPoint[2], StartTime)
    /\ dmg = NoDamage
    /\ move_log = NoMoves
    /\ ret = FALSE
    /\ op = "__init__"
    /\ exc = None
    /\ frame = NoFrame
    /\ NoDraw
    /\ audio = Silent

\* take_damage(damage).  The history dmg follows the calls made so far:
\* spaced, while each was take_damage(1) and came at least
\* invincibility_duration after the one before; updated, while in addition
\* update() ran between the two at least invincibility_duration after the
\* earlier; accepted, the time of the last call that returned True.
TakeDamageWith(amounts) ==
    /\ \E damage \in amounts :
          LET r == take_damage(pl, damage, now)
              first == dmg.calls = 0
              late == now - dmg.last >= invincibility_duration
              spaced == dmg.spaced /\ damage = 1 /\ (first \/ late)
              updated == dmg.updated /\ damage = 1
                         /\ (first \/ (late /\ dmg.upd))
          IN  /\ pl' = r.self
              /\ ret' = r.ret
              /\ dmg' = [calls |-> IF spaced THEN dmg.calls + 1 ELSE dmg.calls,
                         last |-> IF spaced THEN now ELSE 0,
                         spaced |-> spaced,
                         updated |-> updated,
                         upd |-> FALSE,
                         accepted |-> IF r.ret THEN now ELSE dmg.accepted]
    /\ op' = "take_damage"
    /\ exc' = None
    /\ audio' = Silent
    /\ UNCHANGED <<drawVars, frame, now, spriteVars, move_log, enemyVars, loaderVars, query>>

\* take_damage(1), as the collision pass calls it, and take_damage(2).
PlayerTakeDamage == TakeDamageWith({1, 2})

\* The largest damage of one take_damage call in SpecHealth, and how long
\* that specification follows the player.
MaxDamage == 4
HealthHorizon == 30

\* take_damage(n) for every n from 0 to more than max_health.
PlayerTakeDamageAny == TakeDamageWith(0..MaxDamage)

PlayerUpdate ==
    /\ pl' = Player_update(pl, now)
    /\ dmg' = [dmg EXCEPT !.upd =
                  @ \/ (dmg.spaced /\ dmg.calls > 0
                        /\ now - dmg.last >= invincibility_duration)]
    /\ op' = "update"
    /\ exc' = None
    /\ audio' = Silent
    /\ UNCHANGED <<drawVars, frame, now, spriteVars, move_log, ret, enemyVars, loaderVars, query>>

\* start_attack() with the sink in one of the given conditions.  A call
\* that raises returns nothing: ret keeps the value of the call before.
StartAttackWith(sinks) ==
    /\ \E broken \in sinks :
          LET r == start_attack(pl, now, broken)
          IN  /\ pl' = r.self
              /\ ret' = IF r.exc = None THEN r.ret ELSE ret
              /\ exc' = r.exc
              /\ audio' = Heard(r.calls, broken)
    /\ op' = "start_attack"
    /\ UNCHANGED <<drawVars, frame, now, spriteVars, dmg, move_log, enemyVars, loaderVars, query>>

\* start_attack(), with the sound effect working or broken.
PlayerStartAttack == StartAttackWith({{}, {"sounds.sword_2.play"}})

\* start_attack() with a sink that works.
PlayerStartAttackHeard == StartAttackWith({{}})

LastN(q, n) == IF Len(q) <= n THEN q ELSE SubSeq(q, Len(q) - n + 1, Len(q))

\* move(dx, dy, level_width, level_height, current_time) with the clock the
\* loader passes.  The history move_log keeps the results of the latest
\* calls made one tick after one another (five at most), and the time of
\* the last call that returned True.
PlayerMove ==
    /\ \E dx \in {-1, 0, 1}, dy \in {-1, 0, 1} :
          LET r == Player_move(pl, dx, dy, MapW * TILE_SIZE, MapH * TILE_SIZE,
                               get_ticks)
          IN  /\ pl' = r.self
              /\ ret' = r.ret
              /\ move_log' =
                    [last |-> get_ticks,
                     run |-> IF get_ticks = move_log.last + 1
                             THEN LastN(Append(move_log.run, r.ret), 5)
                             ELSE <<r.ret>>,
                     ok_time |-> IF r.ret THEN get_ticks ELSE move_log.ok_time]
    /\ op' = "move"
    /\ exc' = None
    /\ audio' = Silent
    /\ UNCHANGED <<drawVars, frame, now, spriteVars, dmg, enemyVars, loaderVars, query>>

PlayerTickCoarse ==
    /\ now + CoarseStep <= StartTime + PlayerHorizon
    /\ now' = now + CoarseStep
    /\ op' = "tick"
    /\ exc' = None
    /\ audio' = Silent
    /\ UNCHANGED <<drawVars, frame, spriteVars, playerVars, ret, enemyVars, loaderVars, query>>

DamageTick ==
    /\ now + CoarseStep <= StartTime + DamageHorizon
    /\ now' = now + CoarseStep
    /\ op' = "tick"
    /\ exc' = None
    /\ audio' = Silent
    /\ UNCHANGED <<drawVars, frame, spriteVars, playerVars, ret, enemyVars, loaderVars, query>>

PlayerTickFine ==
    /\ now < StartTime + FineHorizon
    /\ now' = now + 1
    /\ op' = "tick"
    /\ exc' = None
    /\ audio' = Silent
    /\ UNCHANGED <<drawVars, frame, spriteVars, playerVars, ret, enemyVars, loaderVars, query>>

NextPlayer ==
    PlayerTakeDamage \/ PlayerUpdate \/ PlayerStartAttack \/ PlayerMove
    \/ PlayerTickCoarse

NextPlayerFine ==
    PlayerTakeDamage \/ PlayerUpdate \/ PlayerStartAttackHeard \/ PlayerMove
    \/ PlayerTickFine

NextDamage ==
    PlayerTakeDamage \/ PlayerUpdate \/ PlayerStartAttackHeard \/ DamageTick

SpecPlayer == InitPlayer /\ [][NextPlayer]_vars

SpecDamage == InitPlayer /\ [][NextDamage]_vars

SpecPlayerFine == InitPlayer /\ [][NextPlayerFine]_vars

HealthTick ==
    /\ now + CoarseStep <= StartTime + HealthHorizon
    /\ now' = now + CoarseStep
    /\ op' = "tick"
    /\ exc' = None
    /\ audio' = Silent
    /\ UNCHANGED <<drawVars, frame, spriteVars, playerVars, ret, enemyVars, loaderVars,
                   query>>

NextHealth ==
    PlayerTakeDamageAny \/ PlayerUpdate \/ PlayerStartAttack \/ PlayerMove
    \/ HealthTick

SpecHealth == InitPlayer /\ [][NextHealth]_vars

\* Moves from a tile in the middle of the level and from one on its left
\* edge, by steps of MoveStep ticks up to MoveHorizon.
MoveSpawns == {SpawnPoint, <<3, TILE_SIZE + 5>>}
MoveHorizon == 8
MoveStep == 2

InitMove ==
    /\ now = StartTime
    /\ IdleSprite /\ IdleEnemy /\ IdleLoader
    /\ \E at \in MoveSpawns : pl = Player_init(at[1], at[2], StartTime)
    /\ dmg = NoDamage
    /\ move_log = NoMoves
    /\ ret = FALSE
    /\ op = "__init__"
    /\ exc = None
    /\ audio = Silent
    /\ frame = NoFrame
    /\ NoDraw

MoveTick ==
    /\ now + MoveStep <= StartTime + MoveHorizon
    /\ now' = now + MoveStep
    /\ op' = "tick"
    /\ exc' = None
    /\ audio' = Silent
    /\ UNCHANGED <<drawVars, frame, spriteVars, playerVars, ret, enemyVars, loaderVars,
                   query>>

NextMove ==
    PlayerTakeDamage \/ PlayerUpdate \/ PlayerStartAttackHeard \/ PlayerMove
    \/ MoveTick

SpecMove == InitMove /\ [][NextMove]_vars

\* An attack followed through its duration: by steps of AttackStep ticks up
\* to AttackHorizon.
AttackHorizon == 14
AttackStep == 2

AttackTick ==
    /\ now + AttackStep <= StartTime + AttackHorizon
    /\ now' = now + AttackStep
    /\ op' = "tick"
    /\ exc' = None
    /\ audio' = Silent
    /\ UNCHANGED <<drawVars, frame, spriteVars, playerVars, ret, enemyVars, loaderVars,
                   query>>

NextAttack ==
    PlayerTakeDamage \/ PlayerUpdate \/ PlayerStartAttack \/ PlayerMove
    \/ AttackTick

SpecAttack == InitPlayer /\ [][NextAttack]_vars

\* ------------------------------------------------------------ an enemy alone

\* The grid the stand-alone enemy walks on, its largest block count, how
\* long it is followed and by which steps of time (ticks).
EnemyW == 9
EnemyH == 7
MaxBlocks == 3
EnemyHorizon == 84
EnemyStep == 3

\* A grid of EnemyW x EnemyH tiles, blocked at the tiles of walls.
GridWith(walls) ==
    [row \in 1..EnemyH |-> [col \in 1..EnemyW |-> <<col - 1, row - 1>> \in walls]]

\* The grids: open, a wall next to the spawn tile on either axis, a wall
\* two tiles from it.
EnemyGrids ==
    {GridWith({}), GridWith({<<6, 5>>, <<5, 6>>}), GridWith({<<7, 5>>, <<5, 7>>})}

\* Where the enemy is placed, in pixels (off the tile origin): tile (5, 5).
EnemySpawn == <<5 * TILE_SIZE + 7, 5 * TILE_SIZE + 2>>

InitEnemy ==
    /\ now = StartTime
    /\ IdleSprite /\ IdlePlayer
    /\ level_sequence = <<>>
    /\ current_level_index = 0
    /\ \E grid \in EnemyGrids :
          IsLevel([BlankLevel EXCEPT !.collision_grid = grid])
    /\ query = NoQuery
    /\ \E movement \in {"horizontal", "vertical"}, blocks \in 1..MaxBlocks :
          en = Enemy_init(EnemySpawn[1], EnemySpawn[2], "rat", movement, blocks,
                          StartTime)
    /\ en_leg = [x |-> (EnemySpawn[1] \div TILE_SIZE) * TILE_SIZE,
                 y |-> (EnemySpawn[2] \div TILE_SIZE) * TILE_SIZE,
                 steps |-> 0, idle_at |-> -1]
    /\ ret = FALSE
    /\ op = "__init__"
    /\ exc = None
    /\ frame = NoFrame
    /\ NoDraw
    /\ audio = Silent

\* update(level_loader).  The history en_leg keeps where the current leg
\* started, the steps taken in it and when the enemy went idle.
EnemyUpdate ==
    /\ LET e == Enemy_update(en, TRUE, collision_grid, now).self
       IN  /\ en' = e
           /\ en_leg' =
                 IF en.movement_state = "idle"
                 THEN IF e.movement_state = "moving"
                      THEN [x |-> e.x, y |-> e.y, steps |-> 0, idle_at |-> -1]
                      ELSE en_leg
                 ELSE [en_leg EXCEPT
                         !.steps = IF <<e.x, e.y>> # <<en.x, en.y>>
                                   THEN @ + 1 ELSE @,
                         !.idle_at = IF e.movement_state = "idle"
                                     THEN now ELSE -1]
    /\ op' = "update"
    /\ exc' = None
    /\ audio' = Silent
    /\ UNCHANGED <<drawVars, frame, now, spriteVars, playerVars, ret, loaderVars, query>>

EnemyTick ==
    /\ now + EnemyStep <= StartTime + EnemyHorizon
    /\ now' = now + EnemyStep
    /\ op' = "tick"
    /\ exc' = None
    /\ audio' = Silent
    /\ UNCHANGED <<drawVars, frame, spriteVars, playerVars, enemyVars, ret, loaderVars, query>>

NextEnemy == EnemyUpdate \/ EnemyTick

SpecEnemy == InitEnemy /\ [][NextEnemy]_vars

\* ------------------------------------------------------------ frames

\* The levels the frame loop is run on, how long it is followed and by which
\* steps of time (ticks).
FrameLevels == {"level-1", "crowd", "badblocks"}
FrameHorizon == 66
FrameStep == 3

InitFrame ==
    /\ now = StartTime
    /\ IdleSprite /\ IdlePlayer /\ IdleEnemy
    /\ \E name \in FrameLevels : level_sequence = <<name>>
    /\ current_level_index = 0
    /\ LET r == load_current_level(BlankLevel, level_sequence, 0, now, {})
       IN  /\ IsLevel(r.state)
           /\ ret = r.ret
           /\ audio = Heard(r.calls, {})
    /\ op = "__init__"
    /\ exc = None
    /\ frame = NoFrame
    /\ NoDraw
    /\ query = NoQuery

\* One frame of the game loop: time passes and pgzero calls update(), which
\* calls LevelLoader.update().  At most one entity's update raises.  An
\* exception that leaves update or move_player ends the program: no call
\* follows it.
LoaderUpdate ==
    /\ exc = None
    /\ now + FrameStep <= StartTime + FrameHorizon
    /\ now' = now + FrameStep
    /\ \E faulty \in {{}} \cup {{i} : i \in 1..Len(entities)} :
          LET r == LevelLoader_update(Level, now', faulty)
          IN  /\ SetLevel(r.state)
              /\ exc' = r.exc
              /\ frame' = r.frame
    /\ op' = "LevelLoader.update"
    /\ audio' = Silent
    /\ UNCHANGED <<spriteVars, playerVars, enemyVars, level_sequence,
                   current_level_index, ret, query, drawVars>>

\* move_player(dx, dy) as the key handler calls it: one axis at a time.
MovePlayer ==
    /\ exc = None
    /\ \E d \in {<<-1, 0>>, <<1, 0>>, <<0, -1>>, <<0, 1>>} :
          LET r == move_player(Level, d[1], d[2], get_ticks)
          IN  /\ SetLevel(r.state)
              /\ ret' = r.ret
              /\ exc' = r.exc
    /\ op' = "move_player"
    /\ audio' = Silent
    /\ UNCHANGED <<now, spriteVars, playerVars, enemyVars, level_sequence,
                   current_level_index, query, frame, drawVars>>

NextFrame == LoaderUpdate \/ MovePlayer

SpecFrame == InitFrame /\ [][NextFrame]_vars

\* ------------------------------------------------------------ the audio sink

\* How long the attacks and loads with a sink that may fail are followed.
AudioHorizon == 20

\* The program with two levels that name music, and a player.
InitAudio ==
    /\ now = StartTime
    /\ IdleSprite /\ IdleEnemy
    /\ pl = Player_init(SpawnPoint[1], SpawnPoint[2], StartTime)
    /\ dmg = NoDamage
    /\ move_log = NoMoves
    /\ level_sequence = <<"level-1", "open">>
    /\ current_level_index = 0
    /\ \E broken \in SUBSET {"music.stop", "music.play"} :
          LET r == load_current_level(BlankLevel, level_sequence, 0, now, broken)
          IN  /\ IsLevel(r.state)
              /\ ret = r.ret
              /\ audio = Heard(r.calls, broken)
    /\ op = "__init__"
    /\ exc = None
    /\ frame = NoFrame
    /\ NoDraw
    /\ query = NoQuery

AudioTick ==
    /\ now + CoarseStep <= StartTime + AudioHorizon
    /\ now' = now + CoarseStep
    /\ op' = "tick"
    /\ exc' = None
    /\ audio' = Silent
    /\ UNCHANGED <<drawVars, frame, spriteVars, playerVars, ret, enemyVars, loaderVars,
                   query>>

NextAudio ==
    NextLevel \/ LoadCurrentLevel \/ PlayerStartAttack \/ PlayerUpdate
    \/ PlayerTakeDamage \/ AudioTick

SpecAudio == InitAudio /\ [][NextAudio]_vars

\* ------------------------------------------------------------ alignment

\* A player and an enemy placed at one pixel position off the grid, inside
\* or left of the level, followed by steps of time (ticks) on an open grid.
AlignSpawns == {<<TILE_SIZE + 3, 5>>, <<-5, TILE_SIZE + 15>>}
AlignHorizon == 99
AlignStep == 33

InitAlign ==
    /\ now = StartTime
    /\ IdleSprite
    /\ level_sequence = <<>>
    /\ current_level_index = 0
    /\ IsLevel([BlankLevel EXCEPT !.collision_grid = GridWith({})])
    /\ query = NoQuery
    /\ dmg = NoDamage
    /\ move_log = NoMoves
    /\ \E at \in AlignSpawns, movement \in {"horizontal", "vertical"},
          blocks \in 1..2 :
          /\ pl = Player_init(at[1], at[2], StartTime)
          /\ en = Enemy_init(at[1], at[2], "rat", movement, blocks, StartTime)
          /\ en_leg = [x |-> en.x, y |-> en.y, steps |-> 0, idle_at |-> -1]
    /\ ret = FALSE
    /\ op = "__init__"
    /\ exc = None
    /\ audio = Silent
    /\ frame = NoFrame
    /\ NoDraw

AlignTick ==
    /\ now + AlignStep <= StartTime + AlignHorizon
    /\ now' = now + AlignStep
    /\ op' = "tick"
    /\ exc' = None
    /\ audio' = Silent
    /\ UNCHANGED <<drawVars, frame, spriteVars, playerVars, ret, enemyVars,
                   loaderVars, query>>

NextAlign == PlayerMove \/ EnemyUpdate \/ AlignTick

SpecAlign == InitAlign /\ [][NextAlign]_vars

\* ------------------------------------------------------------ walking

\* move_player(dx, dy) with any dx, dy in {-1, 0, 1}; the history `query'
\* keeps the request.
MovePlayerAny ==
    /\ \E dx \in {-1, 0, 1}, dy \in {-1, 0, 1} :
          LET r == move_player(Level, dx, dy, get_ticks)
          IN  /\ SetLevel(r.state)
              /\ ret' = r.ret
              /\ exc' = r.exc
              /\ query' = [kind |-> "move_player", grid |-> collision_grid,
                           x |-> dx, y |-> dy, res |-> Returns(r.ret)]
    /\ op' = "move_player"
    /\ audio' = Silent
    /\ screen' = <<>>
    /\ UNCHANGED <<now, spriteVars, playerVars, enemyVars, level_sequence,
                   current_level_index, frame, DEBUG_MODE_ON>>

NextWalk == DrawUpdate \/ MovePlayerAny

\* The levels of SpecDraw, walked: move_player between the frames' updates.
SpecWalk == InitDraw /\ [][NextWalk]_vars

\* ------------------------------------------------------------ patrols

\* An enemy on the middle tile of a line of PatrolLen tiles along its axis,
\* any of the tiles a wall, updated in every frame of PatrolStep ticks for
\* PatrolHorizon ticks: long enough for five legs.
PatrolLen == 5
PatrolBlocks == 3
PatrolHorizon == 400
PatrolStep == 3
PatrolSpawn == PatrolLen \div 2

\* The line as a collision grid: one row for a horizontal enemy, one column
\* for a vertical one.
LineGrid(movement, walls) ==
    IF movement = "horizontal"
    THEN <<[col \in 1..PatrolLen |-> (col - 1) \in walls]>>
    ELSE [row \in 1..PatrolLen |-> <<(row - 1) \in walls>>]

\* The enemy's place along its axis, in pixels.
Along(e, x, y) == IF e.enemy_movement = "horizontal" THEN x ELSE y

InitPatrol ==
    /\ now = StartTime
    /\ IdleSprite /\ IdlePlayer
    /\ level_sequence = <<>>
    /\ current_level_index = 0
    /\ query = NoQuery
    /\ \E movement \in {"horizontal", "vertical"}, blocks \in 1..PatrolBlocks,
          walls \in SUBSET (0..(PatrolLen - 1)) :
          /\ IsLevel([BlankLevel EXCEPT
                         !.collision_grid = LineGrid(movement, walls)])
          /\ en = IF movement = "horizontal"
                  THEN Enemy_init(PatrolSpawn * TILE_SIZE + 5, 9, "rat",
                                  movement, blocks, StartTime)
                  ELSE Enemy_init(9, PatrolSpawn * TILE_SIZE + 5, "rat",
                                  movement, blocks, StartTime)
    /\ en_leg = [x |-> en.x, y |-> en.y, steps |-> 0, idle_at |-> -1,
                 ends |-> <<>>]
    /\ ret = FALSE
    /\ op = "__init__"
    /\ exc = None
    /\ frame = NoFrame
    /\ NoDraw
    /\ audio = Silent

\* One frame: time passes and update(level_loader) is called.  The history
\* en_leg also keeps where each leg ended, along the axis.
PatrolFrame ==
    /\ now + PatrolStep <= StartTime + PatrolHorizon
    /\ now' = now + PatrolStep
    /\ LET e == Enemy_update(en, TRUE, collision_grid, now').self
       IN  /\ en' = e
           /\ en_leg' =
                 IF en.movement_state = "idle"
                 THEN IF e.movement_state = "moving"
                      THEN [en_leg EXCEPT !.x = e.x, !.y = e.y, !.steps = 0,
                                          !.idle_at = -1]
                      ELSE en_leg
                 ELSE [en_leg EXCEPT
                         !.steps = IF <<e.x, e.y>> # <<en.x, en.y>>
                                   THEN @ + 1 ELSE @,
                         !.idle_at = IF e.movement_state = "idle"
                                     THEN now' ELSE -1,
                         !.ends = IF e.movement_state = "idle"
                                  THEN Append(@, Along(e, e.x, e.y)) ELSE @]
    /\ op' = "update"
    /\ exc' = None
    /\ audio' = Silent
    /\ UNCHANGED <<drawVars, frame, spriteVars, playerVars, ret, loaderVars, query>>

SpecPatrol == InitPatrol /\ [][PatrolFrame]_vars

\* ------------------------------------------------------------ patrols without end

\* The enemy's times moved back by d ticks.  Enemy.update uses the times it
\* keeps only in differences with time.time() (lines 575, 654 and
\* AnimatedSprite.update), and the longest duration it compares them with
\* is idle_duration; a time more than StartTime ticks old is kept as
\* StartTime ticks old, which is longer than idle_duration.
Rebase(e, d) ==
    LET back(time) == IF time - d >= 0 THEN time - d ELSE 0
    IN  [e EXCEPT !.last_move_time = back(@),
                  !.idle_start_time = back(@),
                  !.sprite.last_frame_time = back(@)]

\* One frame of a game that runs for ever: PatrolStep ticks pass and
\* update(level_loader) is called.  The clock is read relative to the
\* frame: after the update every time the enemy keeps is moved back by the
\* frame's length, so that `now' stays what it was.
LiveFrame ==
    /\ en' = Rebase(Enemy_update(en, TRUE, collision_grid,
                                 now + PatrolStep).self, PatrolStep)
    /\ op' = "update"
    /\ exc' = None
    /\ audio' = Silent
    /\ UNCHANGED <<drawVars, frame, now, spriteVars, playerVars, en_leg, ret,
                   loaderVars, query>>

\* update is called in every frame: the frame is taken again and again.
SpecPatrolLive == InitPatrol /\ [][LiveFrame]_vars /\ WF_vars(LiveFrame)

\* ------------------------------------------------------------ the hurt time

\* The player followed through one hurt time by steps of time (ticks) that
\* let an update find the hurt clip's frame elapsed, the hurt time not.
HurtHorizon == 30
HurtStep == 6

HurtTick ==
    /\ now + HurtStep <= StartTime + HurtHorizon
    /\ now' = now + HurtStep
    /\ op' = "tick"
    /\ exc' = None
    /\ audio' = Silent
    /\ UNCHANGED <<drawVars, frame, spriteVars, playerVars, ret, enemyVars,
                   loaderVars, query>>

NextHurt ==
    PlayerTakeDamage \/ PlayerUpdate \/ PlayerStartAttackHeard \/ PlayerMove
    \/ HurtTick

SpecHurt == InitPlayer /\ [][NextHurt]_vars

\* ------------------------------------------------------------ claims

GridHeight(grid) == Len(grid)
GridWidth(grid) == IF Len(grid) = 0 THEN 0 ELSE Len(grid[1])
OutOfGrid(grid, col, row) ==
    col < 0 \/ row < 0 \/ col >= GridWidth(grid) \/ row >= GridHeight(grid)

LoadOps == {"__init__", "load_current_level", "next_level"}

\* The level the last load call named, None past the end of the sequence.
CurrentName ==
    IF current_level_index < Len(level_sequence)
    THEN level_sequence[current_level_index + 1] ELSE None

\* C1: on every collision grid, the empty grid of a loader that has loaded
\* nothing included, is_tile_blocked answers blocked, without an IndexError,
\* for every tile outside the grid, and is_position_blocked answers blocked
\* for every pixel position whose tile floor(p / TILE_SIZE) is outside it.
C1_OutOfBoundsIsBlocked ==
    /\ (query.kind = "tile" /\ OutOfGrid(query.grid, query.x, query.y))
          => query.res = Returns(TRUE)
    /\ (query.kind = "position"
        /\ OutOfGrid(query.grid, query.x \div TILE_SIZE, query.y \div TILE_SIZE))
          => query.res = Returns(TRUE)

\* A tile query at non-negative coordinates on the empty grid.
C1_Witness ==
    /\ query.kind = "tile" /\ query.grid = <<>>
    /\ query.x >= 0 /\ query.y >= 0
    /\ query.res = Returns(TRUE)

\* C9: a load call that names a map with no colliders layer (and well-formed
\* entities) returns True, and the grid it leaves has the map's size, answers
\* not blocked for every tile of the map and blocked for every tile outside.
C9_NoCollidersLayerIsOpen ==
    (/\ op \in LoadOps
     /\ CurrentName \in DOMAIN Files
     /\ FindLayer(Files[CurrentName].layers, "colliders", TRUE) = <<>>
     /\ load_entities(Files[CurrentName], now, audio.failed).exc = None)
    => /\ ret = TRUE
       /\ GridHeight(collision_grid) = Files[CurrentName].height
       /\ \A col \in 0..(Files[CurrentName].width - 1),
             row \in 0..(Files[CurrentName].height - 1) :
             is_tile_blocked(collision_grid, col, row) = Returns(FALSE)
       /\ \A c \in TileProbes :
             (c[1] < 0 \/ c[2] < 0 \/ c[1] >= Files[CurrentName].width
              \/ c[2] >= Files[CurrentName].height)
             => is_tile_blocked(collision_grid, c[1], c[2]) = Returns(TRUE)

\* The map without a colliders layer loaded over a level that had walls, and
\* a tile of it queried.
C9_Witness ==
    /\ op = "next_level" /\ ret = TRUE /\ tmx_data = "open"
    /\ query.kind = "tile" /\ query.grid = collision_grid
    /\ ~OutOfGrid(collision_grid, query.x, query.y)
    /\ query.x = 1 /\ query.y = 0
    /\ query.res = Returns(FALSE)

\* C10: a load_current_level or next_level call that returns False leaves
\* the level state (collision_grid, bg_surface, entities, player,
\* animated_tiles, tmx_data) exactly as it was before the call.
C10_FailedLoadKeepsLevel ==
    [][(op' \in {"load_current_level", "next_level"} /\ ret' = FALSE)
       => Level' = Level]_vars

\* C7: from play of a looping clip of L frames, after k update calls each
\* made exactly one clip duration after the previous call, current_frame is
\* k mod L and animation_finished is false.
C7_LoopingClipWraps ==
    (/\ spr.current_animation # None
     /\ sprite_animations[spr.current_animation].loop
     /\ spr_exact >= 0)
    => /\ spr.current_frame
            = spr_exact % Len(sprite_animations[spr.current_animation].frames)
       /\ ~is_animation_finished(spr)

\* The three-frame clip of 0.1 s a frame after four updates 0.1 s apart.
C7_Witness ==
    /\ spr.current_animation = "spin"
    /\ spr_exact = 4
    /\ spr.current_frame = 1
    /\ op = "update"

\* C8: a non-looping clip of L frames is finished and at frame L - 1 once
\* update calls have consumed L frame intervals; a finished sprite is at the
\* last frame, and an update call leaves a finished sprite as it is.
C8_NonLoopingClipPins ==
    /\ [](spr.current_animation # None =>
            LET clip == sprite_animations[spr.current_animation]
            IN  /\ (~clip.loop /\ spr_consumed >= Len(clip.frames))
                      => is_animation_finished(spr)
                /\ is_animation_finished(spr)
                      => spr.current_frame = Len(clip.frames) - 1)
    /\ [][(op' = "update" /\ is_animation_finished(spr)) => spr' = spr]_vars

\* A five-frame non-looping clip, finished, and updated again later.
C8_Witness ==
    /\ spr.current_animation = "attack_right"
    /\ is_animation_finished(spr)
    /\ spr.current_frame = 4
    /\ spr_consumed = 5
    /\ op = "update"
    /\ spr_last_call > spr.last_frame_time

\* C2 as stated: three take_damage(1) calls from full health, each at least
\* invincibility_duration after the one before and nothing else assumed,
\* leave current_health at 0 and the player dead (and a fourth keeps 0).
C2_SpacedCallsKill ==
    (dmg.spaced /\ dmg.calls >= 3)
    => (pl.current_health = 0 /\ is_dead(pl))

\* C2 as amended: the same when, between consecutive calls, update() has
\* run at least invincibility_duration after the earlier call.
C2_SpacedCallsWithUpdateKill ==
    (dmg.updated /\ dmg.calls >= 3)
    => (pl.current_health = 0 /\ is_dead(pl))

\* The fourth such call has just been made.
C2_Witness ==
    /\ dmg.updated /\ dmg.calls = 4
    /\ op = "take_damage" /\ ret = TRUE
    /\ pl.current_health = 0

\* C3: a take_damage call made less than invincibility_duration after an
\* accepted one returns False and leaves current_health, the hurt and
\* invincibility flags and their start times as they were, whatever update,
\* move and start_attack calls came between.
C3_DamageRejectedInWindow ==
    [][(/\ op' = "take_damage"
        /\ dmg.accepted >= 0
        /\ now - dmg.accepted < invincibility_duration)
       => /\ ret' = FALSE
          /\ pl'.current_health = pl.current_health
          /\ pl'.is_hurt = pl.is_hurt
          /\ pl'.is_invincible = pl.is_invincible
          /\ pl'.hurt_start_time = pl.hurt_start_time
          /\ pl'.invincibility_start_time = pl.invincibility_start_time]_vars

\* A call rejected in the window after update has ended the hurt state and
\* the player has moved: one decrement only.
C3_Witness ==
    /\ op = "take_damage" /\ ret = FALSE
    /\ dmg.accepted >= 0
    /\ now - dmg.accepted < invincibility_duration
    /\ ~pl.is_hurt /\ pl.is_invincible
    /\ pl.last_move_time + StartTime > dmg.accepted
    /\ pl.current_health = max_health - 1

\* C4: a move call made less than MOVEMENT_COOLDOWN after a successful move
\* returns False and leaves the position as it was; of five consecutive
\* calls made one tick (0.05 s) apart at most two succeed.
C4_MoveCooldown ==
    /\ [](Len(move_log.run) = 5
            => Cardinality({i \in 1..5 : move_log.run[i]}) <= 2)
    /\ [][(/\ op' = "move"
           /\ move_log.ok_time >= 0
           /\ get_ticks - move_log.ok_time < MOVEMENT_COOLDOWN)
          => (ret' = FALSE /\ pl'.x = pl.x /\ pl'.y = pl.y)]_vars

\* Five calls one tick apart, the first and the fourth successful.
C4_Witness ==
    /\ op = "move"
    /\ move_log.run = <<TRUE, FALSE, FALSE, TRUE, FALSE>>

\* The tile (col, row) lies in the grid and holds no wall.
Free(grid, col, row) ==
    /\ ~OutOfGrid(grid, col, row)
    /\ ~grid[row + 1][col + 1]

\* The n tiles to the right of where the enemy's current leg started.
PathFree ==
    \A k \in 1..en.blocks :
        Free(collision_grid, en_leg.x \div TILE_SIZE + k, en_leg.y \div TILE_SIZE)

\* C5: a horizontal enemy with blocks = n that starts a leg facing right at
\* tile (c, r) with the n tiles to its right free takes exactly one one-tile
\* step in each update that finds move_cooldown elapsed and none in the
\* others; after the n-th step it is idle at (c + n, r); it stays idle where
\* it is until an update at least idle_duration after it went idle, which
\* sets facing to left and the state to moving.
C5_LegThenIdleThenTurn ==
    /\ []((en.enemy_movement = "horizontal" /\ en.facing_direction = "right"
           /\ PathFree)
          => /\ en.y = en_leg.y
             /\ en.movement_state = "moving"
                   => /\ en.x = en_leg.x + en_leg.steps * TILE_SIZE
                      /\ en_leg.steps < en.blocks
             /\ en.movement_state = "idle"
                   => /\ en.x = en_leg.x + en.blocks * TILE_SIZE
                      /\ en_leg.steps = en.blocks)
    /\ [][(/\ op' = "update"
           /\ en.enemy_movement = "horizontal" /\ en.facing_direction = "right"
           /\ PathFree /\ en.movement_state = "moving")
          => IF now - en.last_move_time >= move_cooldown
             THEN en'.x = en.x + TILE_SIZE /\ en'.y = en.y
             ELSE en'.x = en.x /\ en'.y = en.y
                  /\ en'.movement_state = "moving"]_vars
    /\ [][(/\ op' = "update"
           /\ en.enemy_movement = "horizontal" /\ en.facing_direction = "right"
           /\ PathFree /\ en.movement_state = "idle")
          => /\ en'.x = en.x /\ en'.y = en.y
             /\ IF now - en_leg.idle_at >= idle_duration
                THEN en'.facing_direction = "left"
                     /\ en'.movement_state = "moving"
                ELSE en'.facing_direction = "right"
                     /\ en'.movement_state = "idle"]_vars

\* The enemy with blocks = 2 placed at tile (5, 5) has stepped to (7, 5),
\* waited out the idle time and turned left.
C5_Witness ==
    /\ en.enemy_movement = "horizontal" /\ en.blocks = 2
    /\ en.start_x = 5 * TILE_SIZE /\ en.start_y = 5 * TILE_SIZE
    /\ en.x = 7 * TILE_SIZE /\ en.y = 5 * TILE_SIZE
    /\ en.facing_direction = "left" /\ en.movement_state = "moving"
    /\ op = "update"

\* The tile a moving enemy steps onto next.
NextTile ==
    <<en.x \div TILE_SIZE
        + (IF en.enemy_movement = "horizontal"
           THEN IF en.facing_direction = "right" THEN 1 ELSE -1 ELSE 0),
      en.y \div TILE_SIZE
        + (IF en.enemy_movement = "vertical"
           THEN IF en.facing_direction = "right" THEN 1 ELSE -1 ELSE 0)>>

Touching(ents, pref) ==
    {i \in 1..Len(ents) :
        /\ ents[i].kind = "Enemy"
        /\ ents[i].x - TILE_SIZE < ents[pref].x
        /\ ents[pref].x < ents[i].x + TILE_SIZE
        /\ ents[i].y - TILE_SIZE < ents[pref].y
        /\ ents[pref].y < ents[i].y + TILE_SIZE}

\* C11: one LevelLoader.update call runs the collision pass at most once and
\* only after every entity was updated; the pass takes one health point (none
\* from a player at 0) when the player, not invincible at the time of the
\* pass, overlaps one enemy or several, and leaves every entity as it was
\* when the player is absent, invincible at that time or overlaps no enemy.
C11_OneHitPerFrame ==
    [][op' = "LevelLoader.update"
       => /\ frame'.passes <= 1
          /\ frame'.passes = 1 => frame'.updated = 1..Len(entities)
          /\ (frame'.passes = 1 /\ player = 0) => entities' = frame'.at_pass
          /\ player # 0
             => LET before == entities[player].current_health
                    after == entities'[player].current_health
                    seen == frame'.at_pass
                IN  /\ before - after \in {0, 1}
                    /\ frame'.passes = 0 => after = before
                    /\ (frame'.passes = 1 /\ seen[player].is_invincible)
                          => entities' = seen
                    /\ (frame'.passes = 1 /\ Touching(seen, player) = {})
                          => entities' = seen
                    /\ (frame'.passes = 1 /\ ~seen[player].is_invincible
                        /\ Touching(seen, player) # {})
                          => /\ after = IF before = 0 THEN 0 ELSE before - 1
                             /\ \A i \in 1..Len(seen) :
                                   i # player => entities'[i] = seen[i]]_vars

\* A frame in which the player stood on the tile of two enemies and lost one
\* health point.
C11_Witness ==
    /\ op = "LevelLoader.update"
    /\ frame.passes = 1
    /\ player # 0
    /\ Cardinality(Touching(frame.at_pass, player)) >= 2
    /\ ~frame.at_pass[player].is_invincible
    /\ entities[player].current_health
          = frame.at_pass[player].current_health - 1

\* C12: when the update of one entity raises during LevelLoader.update, no
\* exception leaves LevelLoader.update, every other entity is updated and the
\* collision pass runs in that call.
C12_FaultyEntityIsSkipped ==
    [][(op' = "LevelLoader.update" /\ frame'.raised # {})
       => /\ exc' = None
          /\ frame'.updated = (1..Len(entities)) \ frame'.raised
          /\ frame'.passes = 1]_vars

\* The sword clip start_attack plays for a player facing this way.
SwordClip(facing) == IF facing = "right" THEN "attack_right" ELSE "attack_left"

\* C13: a call on the audio sink that raises is not fatal.  A start_attack
\* whose sound effect raised still returns True without an exception, with
\* is_attacking set and the sword clip playing; a load whose music.stop or
\* music.play raised still returns True.
C13_AudioFailureIsNotFatal ==
    /\ [][(op' = "start_attack" /\ audio'.failed # {})
          => /\ exc' = None
             /\ ret' = TRUE
             /\ pl'.is_attacking
             /\ pl'.sword_sprite.current_animation
                   = SwordClip(pl'.facing_direction)]_vars
    /\ [][(op' \in {"load_current_level", "next_level"} /\ audio'.failed # {})
          => (exc' = None /\ ret' = TRUE)]_vars

C16_AttackEndsAfterDuration ==
    [][op' = "update"
       => (pl'.is_attacking => now - pl'.attack_start_time < attack_duration)]_vars

\* An update that ended an attack while the sword clip was on an early frame:
\* no damage was ever accepted, so only the update can have ended it.
C16_Witness ==
    /\ op = "update"
    /\ ~pl.is_attacking
    /\ pl.attack_start_time >= StartTime
    /\ now - pl.attack_start_time >= attack_duration
    /\ dmg.accepted = -1
    /\ pl.sword_sprite.current_animation # None
    /\ pl.sword_sprite.current_frame < 2

\* C15: in no reachable state is the player both hurt and attacking: an
\* accepted take_damage leaves is_attacking false, and start_attack on a hurt
\* player is refused and changes nothing.
C15_NeverHurtAndAttacking ==
    /\ [](~(pl.is_hurt /\ pl.is_attacking))
    /\ [][(op' = "take_damage" /\ ret') => ~pl'.is_attacking]_vars
    /\ [][(op' = "start_attack" /\ pl.is_hurt)
          => (ret' = FALSE /\ pl' = pl)]_vars

\* Damage accepted at the very time an attack was started: the attack was in
\* progress and is cancelled.
C15_Witness ==
    /\ op = "take_damage" /\ ret
    /\ pl.is_hurt /\ ~pl.is_attacking
    /\ pl.attack_start_time = now
    /\ pl.hurt_start_time = now

\* What an operation does to the dead player is what it does to the same
\* player with one health point, the health apart.
Twin == [pl EXCEPT !.current_health = 1]
Dead(p) == [p EXCEPT !.current_health = 0]
DeadIsProcessed ==
    /\ Player_update(pl, now) = Dead(Player_update(Twin, now))
    /\ start_attack(pl, now, {}).ret = start_attack(Twin, now, {}).ret
    /\ start_attack(pl, now, {}).self = Dead(start_attack(Twin, now, {}).self)
    /\ take_damage(pl, 1, now).ret = take_damage(Twin, 1, now).ret
    /\ take_damage(pl, 1, now).self = Dead(take_damage(Twin, 1, now).self)
    /\ \A dx \in {-1, 0, 1}, dy \in {-1, 0, 1} :
          LET dead == Player_move(pl, dx, dy, MapW * TILE_SIZE,
                                  MapH * TILE_SIZE, get_ticks)
              alive == Player_move(Twin, dx, dy, MapW * TILE_SIZE,
                                   MapH * TILE_SIZE, get_ticks)
          IN  dead.ret = alive.ret /\ dead.self = Dead(alive.self)

\* C20: 0 <= current_health <= max_health in every reachable state, for
\* take_damage(n) with any n >= 0 among move, start_attack and update calls;
\* no call raises current_health; is_dead() holds exactly when
\* current_health <= 0, and the dead player's move, start_attack, take_damage
\* and update calls are processed as a living player's.
C20_HealthStaysInRange ==
    /\ [](/\ 0 <= pl.current_health /\ pl.current_health <= max_health
          /\ is_dead(pl) <=> pl.current_health <= 0
          /\ is_dead(pl) => DeadIsProcessed)
    /\ [][pl'.current_health <= pl.current_health]_vars

\* The dead player, killed by one take_damage of more than its health, has
\* just made a successful move.
C20_Witness ==
    /\ is_dead(pl)
    /\ op = "move" /\ ret
    /\ pl.is_moving
    /\ pl.last_move_time = get_ticks
    /\ pl.last_move_time > 0

\* An update finds the player hurt (invincible) and leaves it so exactly when
\* less than hurt_duration (invincibility_duration) has passed since the
\* last accepted take_damage; no call but update and take_damage touches
\* either flag.
HurtAndInvincibilityExpire ==
    /\ [][(op' = "update" /\ pl.is_hurt)
          => (pl'.is_hurt <=> now - dmg.accepted < hurt_duration)]_vars
    /\ [][(op' = "update" /\ pl.is_invincible)
          => (pl'.is_invincible
                <=> now - dmg.accepted < invincibility_duration)]_vars
    /\ [][op' \notin {"update", "take_damage"}
          => /\ pl'.is_hurt = pl.is_hurt
             /\ pl'.is_invincible = pl.is_invincible]_vars

\* A one-tile move request that passes the cooldown, diagonal and bounds
\* checks.
PassesMoveChecks(dx, dy) ==
    /\ get_ticks - pl.last_move_time >= MOVEMENT_COOLDOWN
    /\ (dx = 0) # (dy = 0)
    /\ 0 <= pl.x + dx * TILE_SIZE
    /\ pl.x + dx * TILE_SIZE <= MapW * TILE_SIZE - TILE_SIZE
    /\ 0 <= pl.y + dy * TILE_SIZE
    /\ pl.y + dy * TILE_SIZE <= MapH * TILE_SIZE - TILE_SIZE

\* The request the last move made: Player.move with it gives the player of
\* the next state.
Requested(dx, dy) ==
    /\ op' = "move"
    /\ pl' = Player_move(pl, dx, dy, MapW * TILE_SIZE, MapH * TILE_SIZE,
                         get_ticks).self
    /\ ret' = Player_move(pl, dx, dy, MapW * TILE_SIZE, MapH * TILE_SIZE,
                          get_ticks).ret

\* C17 as stated: after an accepted take_damage at t, is_hurt is cleared by
\* the first update at or after t + hurt_duration and is_invincible by the
\* first at or after t + invincibility_duration; in between the player is
\* invincible and not hurt, and every move that passes the cooldown, diagonal
\* and bounds checks is accepted.
C17_MoveAcceptedWhileInvincible ==
    /\ HurtAndInvincibilityExpire
    /\ [][\A dx \in {-1, 0, 1}, dy \in {-1, 0, 1} :
            (Requested(dx, dy) /\ ~pl.is_hurt /\ pl.is_invincible
             /\ PassesMoveChecks(dx, dy))
            => ret' = TRUE]_vars

\* C17: the same, the moves being those of a player that is not attacking.
C17_MoveAcceptedWhileInvincibleUnlessAttacking ==
    /\ HurtAndInvincibilityExpire
    /\ [][\A dx \in {-1, 0, 1}, dy \in {-1, 0, 1} :
            (Requested(dx, dy) /\ ~pl.is_hurt /\ pl.is_invincible
             /\ ~pl.is_attacking /\ PassesMoveChecks(dx, dy))
            => ret' = TRUE]_vars

\* A move accepted between the end of the hurt state and the end of the
\* invincibility.
C17_Witness ==
    /\ op = "move" /\ ret
    /\ ~pl.is_hurt /\ pl.is_invincible
    /\ dmg.accepted >= StartTime
    /\ now - dmg.accepted >= hurt_duration
    /\ now - dmg.accepted < invincibility_duration
    /\ pl.last_move_time = get_ticks

\* C18: a Player.move that returns True has moved the player by exactly one
\* tile along exactly one axis, to a position within the level; it has set
\* the facing to right on a move to the right and to left on a move to the
\* left and kept it on a vertical move; last_move_time is the time passed to
\* the call and the moving flag is set.
C18_SuccessfulMove ==
    [][(op' = "move" /\ ret')
       => /\ \/ /\ pl'.x - pl.x \in {-TILE_SIZE, TILE_SIZE}
                /\ pl'.y = pl.y
             \/ /\ pl'.y - pl.y \in {-TILE_SIZE, TILE_SIZE}
                /\ pl'.x = pl.x
          /\ pl'.x > pl.x => pl'.facing_direction = "right"
          /\ pl'.x < pl.x => pl'.facing_direction = "left"
          /\ pl'.x = pl.x => pl'.facing_direction = pl.facing_direction
          /\ pl'.last_move_time = get_ticks
          /\ pl'.is_moving
          /\ 0 <= pl'.x /\ pl'.x <= MapW * TILE_SIZE - TILE_SIZE
          /\ 0 <= pl'.y /\ pl'.y <= MapH * TILE_SIZE - TILE_SIZE]_vars

\* The player has just made its second successful move and stands, facing
\* left, on the lower left tile: a move to the left and a move down.
C18_Witness ==
    /\ op = "move" /\ ret
    /\ pl.is_moving
    /\ pl.last_move_time = get_ticks
    /\ pl.last_move_time >= 2 * MOVEMENT_COOLDOWN
    /\ pl.facing_direction = "left"
    /\ pl.x = 0 /\ pl.y = TILE_SIZE

\* C19: a Player.move that returns False leaves the position, the facing,
\* last_move_time and the moving flag as they were.
C19_RejectedMoveChangesNothing ==
    [][(op' = "move" /\ ret' = FALSE)
       => /\ pl'.x = pl.x /\ pl'.y = pl.y
          /\ pl'.facing_direction = pl.facing_direction
          /\ pl'.last_move_time = pl.last_move_time
          /\ pl'.is_moving = pl.is_moving]_vars

\* C21: a stand-alone sprite with a clip shows a frame of that clip,
\* 0 <= current_frame < number of frames, after every sequence of
\* play_animation (known and unknown names, reset or not) and update calls,
\* switches between clips of different lengths included; a play_animation
\* with an unknown name leaves the sprite as it was.
C21_FrameWithinClip ==
    /\ [](spr.current_animation # None
          => /\ spr.current_animation \in DOMAIN sprite_animations
             /\ 0 <= spr.current_frame
             /\ spr.current_frame
                   < Len(sprite_animations[spr.current_animation].frames))
    /\ [][(op' = "play_animation"
           /\ spr_call'.name \notin DOMAIN sprite_animations)
          => spr' = spr]_vars

\* A switch, without reset, from the last frame of a five-frame clip to the
\* two-frame clip.
C21_Witness ==
    /\ op = "play_animation"
    /\ spr_call.name = "blink" /\ ~spr_call.reset
    /\ spr_call.before.current_animation = "attack_left"
    /\ spr_call.before.current_frame = 4
    /\ spr.current_animation = "blink"
    /\ spr.current_frame = 0

PlacedObjects(level_name) ==
    LET layer == FindLayer(Files[level_name].layers, "entities", FALSE)
    IN  IF layer = <<>> THEN <<>> ELSE layer[1].objects
PlacedEntities(level_name) ==
    SelectSeq(PlacedObjects(level_name),
              LAMBDA o : o.name \in {"player", "Player", "enemy", "Enemy"})
IsPlayerObject(o) == o.name \in {"player", "Player"}

\* C23: after every load call (a load that succeeds, fails half way or finds
\* no file; a level with no, one or two player objects) the tracked player
\* is absent or is an element of entities that is a Player; after a
\* successful load it is the last player object placed, and every placed
\* player object is in entities, at its place among the placed entities.
C23_PlayerReferenceIsAnEntity ==
    op \in LoadOps
    => /\ player = 0
          \/ (player \in 1..Len(entities) /\ entities[player].kind = "Player")
       /\ (ret /\ CurrentName # None)
          => LET placed == PlacedEntities(CurrentName)
                 players == {i \in 1..Len(placed) : IsPlayerObject(placed[i])}
             IN  /\ Len(entities) = Len(placed)
                 /\ \A i \in players :
                       /\ entities[i].kind = "Player"
                       /\ entities[i].x = (placed[i].x \div TILE_SIZE) * TILE_SIZE
                       /\ entities[i].y = (placed[i].y \div TILE_SIZE) * TILE_SIZE
                 /\ player = IF players = {} THEN 0
                             ELSE CHOOSE i \in players : \A j \in players : j <= i

\* The level with two player objects is loaded: both are entities and the
\* second one is tracked.
C23_Witness ==
    /\ op \in LoadOps /\ ret
    /\ CurrentName = "twins"
    /\ Len(entities) = 3
    /\ entities[1].kind = "Player" /\ entities[3].kind = "Player"
    /\ player = 3

\* A level with no player object is loaded: nothing is tracked.
C23_WitnessNoPlayer ==
    /\ op \in LoadOps /\ ret
    /\ CurrentName = "mobs"
    /\ Len(entities) = 4
    /\ player = 0

\* After a successful load each enemy has, for each optional property, the
\* value placed on its object (for blocks, its int()) or, when the object
\* has none, the default given here.
EnemiesTakeDefaults(type, axis, blocks) ==
    (op \in LoadOps /\ ret /\ CurrentName # None)
    => LET placed == PlacedEntities(CurrentName)
       IN  /\ Len(entities) = Len(placed)
           /\ \A i \in 1..Len(placed) :
                 ~IsPlayerObject(placed[i])
                 => LET props == placed[i].properties
                    IN  /\ entities[i].kind = "Enemy"
                        /\ entities[i].enemy_type =
                              IF "enemy_type" \in DOMAIN props
                              THEN props["enemy_type"] ELSE type
                        /\ entities[i].enemy_movement =
                              IF "enemy_movement" \in DOMAIN props
                              THEN props["enemy_movement"] ELSE axis
                        /\ entities[i].blocks =
                              IF "blocks" \in DOMAIN props
                              THEN ToInt(props["blocks"]).val ELSE blocks

\* C24 as stated: an enemy object placed with none of its optional properties
\* becomes an enemy of type "generic", axis "horizontal" and blocks 2, and each
\* absent property takes that default whichever other properties are present.
C24_AbsentPropertiesTakeDocumentedDefaults ==
    EnemiesTakeDefaults("generic", "horizontal", 2)

\* C24, as the loader has it: an enemy object placed with none of its
\* optional properties becomes an enemy of type "rat", axis "horizontal" and
\* blocks 2, and each absent property takes that default whichever other
\* properties are present.
C24_AbsentPropertiesTakeCodeDefaults ==
    EnemiesTakeDefaults("rat", "horizontal", 2)

\* The level of enemies with some of their properties is loaded.
C24_Witness ==
    /\ op \in LoadOps /\ ret
    /\ CurrentName = "mobs"
    /\ entities[1].enemy_type = "rat" /\ entities[1].blocks = 2
    /\ entities[2].enemy_movement = "vertical" /\ entities[2].blocks = 2
    /\ entities[3].blocks = 3 /\ entities[3].enemy_movement = "horizontal"
    /\ entities[4].enemy_type = "bat" /\ entities[4].blocks = 1

\* The place of each part of draw in the order of drawing.
LayerRank(layer) ==
    IF layer = "background" THEN 1
    ELSE IF layer = "tile" THEN 2
    ELSE IF layer = "entity" THEN 3
    ELSE IF layer = "ui" THEN 4 ELSE 5

\* The blits of a draw call come part by part, and within the animated
\* tiles and the entities in list order.
DrawnInOrder ==
    \A i, j \in 1..Len(screen) :
        i < j => /\ LayerRank(screen[i].layer) <= LayerRank(screen[j].layer)
                 /\ (screen[i].layer = screen[j].layer
                     /\ screen[i].layer \in {"tile", "entity"})
                       => screen[i].n <= screen[j].n

TileOrigin(p, q) == p % TILE_SIZE = 0 /\ p <= q /\ q < p + TILE_SIZE

\* C26: the player and the enemy stand on tile origins (x and y multiples of
\* TILE_SIZE) in every reachable state: placing either at an integer pixel
\* position, negative ones included, puts it on the origin of the tile that
\* holds the pixel, and every player move and enemy step keeps it on one.
C26_PositionsAreTileAligned ==
    /\ pl.x % TILE_SIZE = 0 /\ pl.y % TILE_SIZE = 0
    /\ en.x % TILE_SIZE = 0 /\ en.y % TILE_SIZE = 0
    /\ \A at \in AlignSpawns :
          /\ TileOrigin(Player_init(at[1], at[2], now).x, at[1])
          /\ TileOrigin(Player_init(at[1], at[2], now).y, at[2])
          /\ TileOrigin(Enemy_init(at[1], at[2], "rat", "vertical", 1, now).x, at[1])
          /\ TileOrigin(Enemy_init(at[1], at[2], "rat", "vertical", 1, now).y, at[2])

\* A player and an enemy placed left of the level: the player has moved in
\* and on both axes, the enemy has stepped in, turned and found the way back
\* blocked.
C26_Witness ==
    /\ pl.x = TILE_SIZE /\ pl.y = 0 /\ pl.last_move_time > 0
    /\ en.start_x = -TILE_SIZE /\ en.start_y = TILE_SIZE
    /\ en.enemy_movement = "horizontal" /\ en.blocks = 1
    /\ en.x = 0 /\ en.facing_direction = "left"
    /\ en.movement_state = "idle"
    /\ op = "update"

\* The tile of the level's grid at a pixel position is in the grid and not
\* blocked.
OnFreeTile(x, y) ==
    Free(collision_grid, x \div TILE_SIZE, y \div TILE_SIZE)

\* C27: the player of a level, placed on a free tile of the grid, is on a
\* free tile inside the level after every sequence of move_player(dx, dy),
\* dx, dy in {-1, 0, 1}, and updates (which deal the damage of the enemies
\* met); a move_player whose destination tile is blocked or outside the
\* level returns False and leaves position and facing as they were.
C27_PlayerStaysOnFreeTiles ==
    /\ [](player # 0
          => /\ OnFreeTile(entities[player].x, entities[player].y)
             /\ 0 <= entities[player].x
             /\ entities[player].x <= get_level_size(Level)[1] - TILE_SIZE
             /\ 0 <= entities[player].y
             /\ entities[player].y <= get_level_size(Level)[2] - TILE_SIZE)
    /\ [][(/\ op' = "move_player" /\ player # 0
           /\ ~OnFreeTile(entities[player].x + query'.x * TILE_SIZE,
                          entities[player].y + query'.y * TILE_SIZE))
          => /\ ~ret'
             /\ entities'[player].x = entities[player].x
             /\ entities'[player].y = entities[player].y
             /\ entities'[player].facing_direction
                   = entities[player].facing_direction]_vars

\* The player of "level-1", hurt on its way, has walked round the wall to
\* the top right tile and asks for the wall's tile: refused.
C27_Witness ==
    /\ op = "move_player" /\ ~ret
    /\ CurrentName = "level-1" /\ player # 0
    /\ entities[player].x = 2 * TILE_SIZE /\ entities[player].y = 0
    /\ entities[player].current_health < max_health
    /\ query.x = -1 /\ query.y = 0
    /\ entities[player].facing_direction = "right"
    /\ get_ticks - entities[player].last_move_time >= MOVEMENT_COOLDOWN
    /\ ~entities[player].is_hurt /\ ~entities[player].is_attacking

\* The enemy was placed on a free tile of the grid.
SpawnedOnFreeTile == OnFreeTile(en.start_x, en.start_y)

\* C28: an enemy placed on a free tile of the grid and updated with the
\* level's collision query is on a free tile of the grid after any number of
\* updates, on either axis, facing either way, for every blocks value.
C28_EnemyStaysOnFreeTiles ==
    SpawnedOnFreeTile => OnFreeTile(en.x, en.y)

\* An enemy that walked left (up), found the next tile blocked before its
\* leg was complete and stands idle before it.
C28_Witness ==
    /\ SpawnedOnFreeTile
    /\ op = "update"
    /\ en.facing_direction = "left"
    /\ en.movement_state = "idle" /\ en_leg.idle_at = now
    /\ en_leg.steps > 0 /\ en_leg.steps < en.blocks
    /\ ~Free(collision_grid, NextTile[1], NextTile[2])
    /\ ~OutOfGrid(collision_grid, NextTile[1], NextTile[2])

\* The distance between two places along the axis, in pixels.
Apart(a, b) == IF a >= b THEN a - b ELSE b - a

\* The enemy is within blocks tiles of its spawn tile along its axis; from
\* the third leg on each leg ends where the leg two before it ended; the
\* ends of the first two legs are at most blocks tiles apart and the spawn
\* tile is between them.
PatrolsWithoutDrift ==
    LET spawn == Along(en, en.start_x, en.start_y)
        ends == en_leg.ends
    IN  /\ Apart(Along(en, en.x, en.y), spawn) <= en.blocks * TILE_SIZE
        /\ \A k \in 3..Len(ends) : ends[k] = ends[k - 2]
        /\ Len(ends) >= 2
              => /\ Apart(ends[1], ends[2]) <= en.blocks * TILE_SIZE
                 /\ ends[2] <= spawn /\ spawn <= ends[1]

C30_AlternatesForEver ==
    /\ (en.movement_state = "moving") ~> (en.movement_state = "idle")
    /\ \A facing \in {"left", "right"} :
          (en.movement_state = "idle" /\ en.facing_direction = facing)
          ~> (en.movement_state = "moving" /\ en.facing_direction # facing)

\* An enemy walled in on both sides that has turned, found the way blocked
\* again and is idle where it was placed.
C30_Witness ==
    /\ op = "update"
    /\ en.blocks > 1
    /\ SpawnedOnFreeTile
    /\ collision_grid = LineGrid(en.enemy_movement,
                                 {PatrolSpawn - 1, PatrolSpawn + 1})
    /\ en.movement_state = "idle" /\ en.facing_direction = "left"
    /\ en.x = en.start_x /\ en.y = en.start_y

\* C31: a hurt player is invincible in every reachable state: an accepted
\* take_damage sets both flags, with the same start time, and an update that
\* clears is_invincible leaves a player that is not hurt, so no take_damage
\* and no collision pass finds a player hurt and vulnerable.
C31_HurtImpliesInvincible ==
    /\ [](pl.is_hurt => pl.is_invincible)
    /\ [][/\ (op' = "take_damage" /\ ret')
             => /\ pl'.is_hurt /\ pl'.is_invincible
                /\ pl'.hurt_start_time = pl'.invincibility_start_time
          /\ (op' = "update" /\ pl.is_invincible /\ ~pl'.is_invincible)
             => ~pl'.is_hurt
          /\ (op' = "take_damage" /\ pl.is_hurt) => (~ret' /\ pl' = pl)]_vars

\* The update that ends the invincibility of a player damaged
\* invincibility_duration before: the hurt flag, still set until this call,
\* is cleared in it too.
C31_Witness ==
    /\ op = "update"
    /\ dmg.accepted >= 0 /\ now - dmg.accepted >= invincibility_duration
    /\ pl.current_health < max_health
    /\ ~pl.is_invincible /\ ~pl.is_hurt
    /\ pl.invincibility_start_time = dmg.accepted

\* The clips of the player sprite by kind.
HurtClips == {"hurt_left", "hurt_right"}
RestClips == {"idle_left", "idle_right", "walk_left", "walk_right"}

\* C32: an update of a hurt player whose hurt_duration has not elapsed only
\* updates the sprite, which stays on its hurt clip: is_invincible,
\* is_attacking, movement_timer, the moving flag and everything else but the
\* sprite's frame are as before.  The player sprite is on a hurt clip as long
\* as the player is hurt; an idle or walk clip is selected again in the
\* update that clears the hurt flag.
C32_HurtUpdateOnlyAnimates ==
    /\ [](pl.is_hurt => pl.sprite.current_animation \in HurtClips)
    /\ [][(op' = "update" /\ pl.is_hurt
           /\ now - pl.hurt_start_time < hurt_duration)
          => /\ pl' = [pl EXCEPT !.sprite = pl'.sprite]
             /\ pl'.sprite = AnimatedSprite_update(player_animations,
                                                   pl.sprite, now)
             /\ pl'.sprite.current_animation = pl.sprite.current_animation
             /\ pl'.is_hurt]_vars
    /\ [][(op' = "update" /\ pl.is_hurt
           /\ now - pl.hurt_start_time >= hurt_duration)
          => /\ ~pl'.is_hurt
             /\ pl'.sprite.current_animation \in RestClips]_vars

\* An update of a player that moved, was hit and is still hurt: the
\* moving flag is still set and the hurt clip has advanced.
C32_Witness ==
    /\ op = "update"
    /\ pl.is_hurt /\ pl.is_invincible
    /\ now - pl.hurt_start_time < hurt_duration
    /\ pl.is_moving
    /\ pl.sprite.current_animation \in HurtClips
    /\ pl.sprite.last_frame_time = now /\ now > pl.hurt_start_time

\* C33: one update call moves a sprite's frame by at most one step (the next
\* frame, frame 0 after the last frame of a looping clip, the last frame
\* kept by a clip that does not loop), however many clip durations have
\* passed since the call before, and whenever it does so it sets
\* last_frame_time to the time of the call; otherwise frame and
\* last_frame_time are as they were.
C33_OneFramePerUpdate ==
    [][(op' = "update" /\ spr.current_animation # None)
       => LET clip == sprite_animations[spr.current_animation]
              n == Len(clip.frames)
              due == ~spr.animation_finished
                     /\ now - spr.last_frame_time >= clip.duration
          IN  /\ spr'.current_animation = spr.current_animation
              /\ due => /\ spr'.last_frame_time = now
                        /\ spr'.current_frame =
                              IF spr.current_frame + 1 < n
                              THEN spr.current_frame + 1
                              ELSE IF clip.loop THEN 0 ELSE n - 1
              /\ ~due => /\ spr'.last_frame_time = spr.last_frame_time
                         /\ spr'.current_frame = spr.current_frame]_vars

\* An update that found three durations of the three-frame looping clip
\* passed since frame 0 was shown: frame 1, shown from now.
C33_Witness ==
    /\ op = "update"
    /\ spr_call.before.current_animation = "spin"
    /\ spr_call.before.current_frame = 0
    /\ now - spr_call.before.last_frame_time
          >= 3 * sprite_animations["spin"].duration
    /\ spr.current_frame = 1
    /\ spr.last_frame_time = now

====
